---------------------------- MODULE Spec2Model ----------------------------
(***************************************************************************)
(* A model of the pynext compiler pipeline: Lexer (src/lexer/Lexer.h),     *)
(* Parser (Parser.cpp), TypeChecker (sema) and CodeGen (codegen).          *)
(*                                                                         *)
(* Source text is a sequence of one-character strings.  The AST is built   *)
(* from records; every expression record carries a `type` slot.  Each      *)
(* stage is translated from its C++ code as an operator over an explicit   *)
(* state record, and a specification per stage draws the stage's inputs    *)
(* from bounded sets and applies the stage.                                *)
(***************************************************************************)
EXTENDS Integers, Sequences, FiniteSets, TLC

VARIABLES
    source,         \* Lexer::source
    position,       \* Lexer::position
    line,           \* Lexer::line
    column,         \* Lexer::column
    startPosition,  \* Lexer::startPosition
    tokens,         \* the tokens returned so far by nextToken, in order
    stage,          \* which pipeline stage the behaviour exercises, and how far it is
    input,          \* the input handed to the parser / Sema / CodeGen stage
    output          \* what that stage produced

vars == <<source, position, line, column, startPosition, tokens, stage, input, output>>

lexerVars == <<source, position, line, column, startPosition, tokens>>

-----------------------------------------------------------------------------
(* Bounds *)

MaxSrcLen == 3

MaxEofCalls == 2

\* the number of binary operators in the expressions handed to the parser
MaxOps == 3

\* the number of statements in a block nested in an if or a while
MaxBlockLen == 1

\* the number of statements in a function body or at top level
MaxBodyLen == 2

\* the number of fields in a struct declaration
MaxFields == 3

\* the number of top-level declarations and statements in a module
MaxDecls == 3

\* the number of edits (a token inserted, replaced or deleted) made to a program
MaxEdits == 1

\* the number of elements in an array literal
MaxElements == 3

-----------------------------------------------------------------------------
(* Characters *)

\* what peek() returns at the end of the source ('\0')
NUL == "NUL"

Letters ==
    {"a","b","c","d","e","f","g","h","i","j","k","l","m",
     "n","o","p","q","r","s","t","u","v","w","x","y","z"}

Digits == {"0","1","2","3","4","5","6","7","8","9"}

IsSpace(c) == c \in {" ", "\n", "\t", "\r", "\f"}

IsAlpha(c) == c \in Letters

IsDigit(c) == c \in Digits

IsAlnum(c) == IsAlpha(c) \/ IsDigit(c)

\* the characters the bounded sources are made of
Alphabet ==
    {"i", "f", "1", " ", "\n", "#", "\"", "!",
     "+", "-", "*", "/", "=", "<", ">", ".", ",", ":", "(", ")", "[", "]"}

RECURSIVE SeqsUpTo(_, _)
SeqsUpTo(S, n) ==
    IF n = 0 THEN {<<>>}
    ELSE LET shorter == SeqsUpTo(S, n - 1)
         IN  shorter \cup {Append(s, c) : s \in shorter, c \in S}

Sources == SeqsUpTo(Alphabet, MaxSrcLen)

Min(a, b) == IF a < b THEN a ELSE b

-----------------------------------------------------------------------------
(* Lexer.  A lexer state is [position, line, column, startPosition].       *)

LexState(p, l, c, s) == [position |-> p, line |-> l, column |-> c, startPosition |-> s]

Peek(src, st) ==
    IF st.position >= Len(src) THEN NUL ELSE src[st.position + 1]

Advance(src, st) ==
    IF st.position < Len(src)
    THEN IF src[st.position + 1] = "\n"
         THEN [st EXCEPT !.line = @ + 1, !.column = 1, !.position = @ + 1]
         ELSE [st EXCEPT !.column = @ + 1, !.position = @ + 1]
    ELSE st

\* the inner loop of skipWhitespace: while (peek() != '\n' && peek() != '\0') advance()
RECURSIVE SkipComment(_, _)
SkipComment(src, st) ==
    IF Peek(src, st) # "\n" /\ Peek(src, st) # NUL
    THEN SkipComment(src, Advance(src, st))
    ELSE st

RECURSIVE SkipWhitespace(_, _)
SkipWhitespace(src, st) ==
    LET c == Peek(src, st)
    IN  IF IsSpace(c) THEN SkipWhitespace(src, Advance(src, st))
        ELSE IF c = "#" THEN SkipWhitespace(src, SkipComment(src, st))
        ELSE st

\* std::string_view::substr(pos, n): the view of min(n, size - pos) characters at pos
Substr(src, pos, n) == [textPos |-> pos, textLen |-> Min(n, Len(src) - pos)]

\* the characters of a view
TextOf(src, textPos, textLen) == SubSeq(src, textPos + 1, textPos + textLen)

Token(kind, text, l, c) ==
    [kind |-> kind, textPos |-> text.textPos, textLen |-> text.textLen,
     line |-> l, column |-> c]

Atom(src, st, kind) ==
    LET text == Substr(src, st.startPosition, st.position - st.startPosition)
    IN  Token(kind, text, st.line, st.column - text.textLen)

RECURSIVE IdentifierLoop(_, _)
IdentifierLoop(src, st) ==
    IF IsAlnum(Peek(src, st)) \/ Peek(src, st) = "_"
    THEN IdentifierLoop(src, Advance(src, st))
    ELSE st

KeywordKind(text) ==
    IF      text = <<"d","e","f">>                 THEN "Def"
    ELSE IF text = <<"e","n","d">>                 THEN "End"
    ELSE IF text = <<"i","f">>                     THEN "If"
    ELSE IF text = <<"e","l","s","e">>             THEN "Else"
    ELSE IF text = <<"r","e","t","u","r","n">>     THEN "Return"
    ELSE IF text = <<"v","a","r">>                 THEN "Var"
    ELSE IF text = <<"s","t","r","u","c","t">>     THEN "Struct"
    ELSE IF text = <<"e","x","t","e","r","n">>     THEN "Extern"
    ELSE IF text = <<"w","h","i","l","e">>         THEN "While"
    ELSE IF text = <<"t","r","u","e">>             THEN "True"
    ELSE IF text = <<"f","a","l","s","e">>         THEN "False"
    ELSE "Identifier"

\* Lexer::identifier; returns the lexer state and the token
Identifier(src, st0) ==
    LET st   == IdentifierLoop(src, st0)
        text == TextOf(src, st.startPosition, st.position - st.startPosition)
    IN  [st |-> st, tok |-> Atom(src, st, KeywordKind(text))]

RECURSIVE DigitLoop(_, _)
DigitLoop(src, st) ==
    IF IsDigit(Peek(src, st)) THEN DigitLoop(src, Advance(src, st)) ELSE st

\* Lexer::number
Number(src, st0) ==
    LET st1     == DigitLoop(src, st0)
        isFloat == Peek(src, st1) = "."
        st2     == IF isFloat THEN DigitLoop(src, Advance(src, st1)) ELSE st1
    IN  [st |-> st2, tok |-> Atom(src, st2, IF isFloat THEN "Float" ELSE "Integer")]

RECURSIVE StringLoop(_, _)
StringLoop(src, st) ==
    IF Peek(src, st) # "\"" /\ Peek(src, st) # NUL
    THEN StringLoop(src, Advance(src, st))
    ELSE st

\* Lexer::string.  fullLen - 2 is computed in size_t: for fullLen = 1 it wraps to a
\* count larger than any source, which substr clamps to the rest of the source.
StringTok(src, st0) ==
    LET st1     == StringLoop(src, Advance(src, st0))
        st2     == IF Peek(src, st1) = "\"" THEN Advance(src, st1) ELSE st1
        fullLen == st2.position - st2.startPosition
        count   == IF fullLen >= 2 THEN fullLen - 2 ELSE Len(src) + 1
        text    == Substr(src, st2.startPosition + 1, count)
    IN  [st |-> st2, tok |-> Token("String", text, st2.line, st2.column - fullLen)]

\* the switch of nextToken, entered after the first character c was consumed
OperatorTok(src, st, c) ==
    IF      c = "+" THEN [st |-> st, tok |-> Atom(src, st, "Plus")]
    ELSE IF c = "*" THEN [st |-> st, tok |-> Atom(src, st, "Star")]
    ELSE IF c = "/" THEN [st |-> st, tok |-> Atom(src, st, "Slash")]
    ELSE IF c = "(" THEN [st |-> st, tok |-> Atom(src, st, "LParen")]
    ELSE IF c = ")" THEN [st |-> st, tok |-> Atom(src, st, "RParen")]
    ELSE IF c = "," THEN [st |-> st, tok |-> Atom(src, st, "Comma")]
    ELSE IF c = ":" THEN [st |-> st, tok |-> Atom(src, st, "Colon")]
    ELSE IF c = "." THEN [st |-> st, tok |-> Atom(src, st, "Dot")]
    ELSE IF c = "<" THEN [st |-> st, tok |-> Atom(src, st, "LessThan")]
    ELSE IF c = ">" THEN [st |-> st, tok |-> Atom(src, st, "GreaterThan")]
    ELSE IF c = "-" THEN
        IF Peek(src, st) = ">"
        THEN LET st1 == Advance(src, st) IN [st |-> st1, tok |-> Atom(src, st1, "Arrow")]
        ELSE [st |-> st, tok |-> Atom(src, st, "Minus")]
    ELSE IF c = "=" THEN
        IF Peek(src, st) = "="
        THEN LET st1 == Advance(src, st) IN [st |-> st1, tok |-> Atom(src, st1, "EqualEqual")]
        ELSE [st |-> st, tok |-> Atom(src, st, "Equal")]
    ELSE IF c = "!" THEN
        IF Peek(src, st) = "="
        THEN LET st1 == Advance(src, st) IN [st |-> st1, tok |-> Atom(src, st1, "NotEqual")]
        ELSE [st |-> st, tok |-> Atom(src, st, "Error")]
    ELSE [st |-> st, tok |-> Atom(src, st, "Error")]

\* a nextToken that consumes the end of the input like any other character
NextTokenEofConsumed(src, st0) ==
    LET sk == SkipWhitespace(src, st0)
        st == [sk EXCEPT !.startPosition = sk.position]
        c  == Peek(src, st)
    IN  IF c = NUL
        THEN [st |-> [st EXCEPT !.position = @ + 1, !.column = @ + 1],
              tok |-> Atom(src, st, "EndOfFile")]
        ELSE IF IsAlpha(c) \/ c = "_" THEN Identifier(src, Advance(src, st))
        ELSE IF IsDigit(c) THEN Number(src, st)
        ELSE IF c = "\"" THEN StringTok(src, st)
        ELSE OperatorTok(src, Advance(src, st), c)

\* Lexer::nextToken; returns the lexer state and the token
NextTokenOf(src, st0) ==
    LET sk == SkipWhitespace(src, st0)
        st == [sk EXCEPT !.startPosition = sk.position]
        c  == Peek(src, st)
    IN  IF c = NUL THEN [st |-> st, tok |-> Atom(src, st, "EndOfFile")]
        ELSE IF IsAlpha(c) \/ c = "_" THEN Identifier(src, Advance(src, st))
        ELSE IF IsDigit(c) THEN Number(src, st)
        ELSE IF c = "\"" THEN StringTok(src, st)
        ELSE OperatorTok(src, Advance(src, st), c)

EofCalls == Cardinality({i \in 1..Len(tokens) : tokens[i].kind = "EndOfFile"})

LexIdle ==
    /\ source = <<>> /\ position = 0 /\ line = 1 /\ column = 1
    /\ startPosition = 0 /\ tokens = <<>>

NoOutput == [done |-> FALSE]

StageIdle == stage = "lexer" /\ input = <<>> /\ output = NoOutput

\* Lexer::Lexer(source)
LexerInit ==
    /\ source \in Sources
    /\ position = 0 /\ line = 1 /\ column = 1 /\ startPosition = 0
    /\ tokens = <<>>
    /\ StageIdle

\* one call of Lexer::nextToken by the lexer's user
NextToken ==
    /\ EofCalls < MaxEofCalls
    /\ LET r == NextTokenOf(source, LexState(position, line, column, startPosition))
       IN  /\ position' = r.st.position
           /\ line' = r.st.line
           /\ column' = r.st.column
           /\ startPosition' = r.st.startPosition
           /\ tokens' = Append(tokens, r.tok)
    /\ UNCHANGED <<source, stage, input, output>>

LexerNext == NextToken

LexerSpec == LexerInit /\ [][LexerNext]_vars

-----------------------------------------------------------------------------
(* AST.  Expression nodes are records with a `node` tag and a `type` slot;   *)
(* the slot is NullType until Sema fills it.                                 *)

NullType == [kind |-> "null"]

LiteralExpr(val, isFloat, isBool, isString) ==
    [node |-> "Literal", value |-> val, isFloat |-> isFloat, isBool |-> isBool,
     isString |-> isString, type |-> NullType]

VariableExpr(name) == [node |-> "Variable", name |-> name, type |-> NullType]

BinaryExpr(op, left, right) ==
    [node |-> "Binary", op |-> op, left |-> left, right |-> right, type |-> NullType]

CallExpr(callee, args) ==
    [node |-> "Call", callee |-> callee, args |-> args, type |-> NullType]

MemberAccessExpr(object, member) ==
    [node |-> "MemberAccess", object |-> object, member |-> member, type |-> NullType]

IndexExpr(object, index) ==
    [node |-> "Index", object |-> object, index |-> index, type |-> NullType]

ArrayLiteralExpr(elements) ==
    [node |-> "ArrayLiteral", elements |-> elements, type |-> NullType]

-----------------------------------------------------------------------------
(* Parser.  The token stream is the sequence of tokens the lexer returns, as *)
(* [kind, text]; the parser's position i is the index of currentToken.  A    *)
(* parse result is [ok, node, pos]; ok = FALSE is the fatal exit(1).         *)

Tok(kind, text) == [kind |-> kind, text |-> text]

EofTok == Tok("EndOfFile", "")

\* currentToken; past the end of the stream the lexer keeps returning EndOfFile
Cur(toks, i) == IF i > Len(toks) THEN EofTok ELSE toks[i]

Fatal(i) == [ok |-> FALSE, node |-> NullType, pos |-> i]

Parsed(n, i) == [ok |-> TRUE, node |-> n, pos |-> i]

\* Parser::consume: the token and the position after it, or the fatal exit
Consume(toks, i, kind) ==
    IF Cur(toks, i).kind = kind THEN Parsed(Cur(toks, i), i + 1) ELSE Fatal(i)

\* a getPrecedence that ranks + and - above * and /
GetPrecedenceAdditiveFirst(kind) ==
    CASE kind \in {"Star", "Slash"}           -> 4
      [] kind \in {"Plus", "Minus"}           -> 5
      [] kind \in {"LessThan", "GreaterThan"} -> 3
      [] kind \in {"EqualEqual", "NotEqual"}  -> 2
      [] kind = "Equal"                       -> 1
      [] OTHER                                -> -1

\* a getPrecedence that ranks the Error token as an additive operator
GetPrecedenceErrorAsOperator(kind) ==
    CASE kind \in {"Star", "Slash"}           -> 5
      [] kind \in {"Plus", "Minus", "Error"}  -> 4
      [] kind \in {"LessThan", "GreaterThan"} -> 3
      [] kind \in {"EqualEqual", "NotEqual"}  -> 2
      [] kind = "Equal"                       -> 1
      [] OTHER                                -> -1

\* a getPrecedence whose default is 0, the precedence parseExpression starts at
GetPrecedenceDefaultZero(kind) ==
    CASE kind \in {"Star", "Slash"}           -> 5
      [] kind \in {"Plus", "Minus"}           -> 4
      [] kind \in {"LessThan", "GreaterThan"} -> 3
      [] kind \in {"EqualEqual", "NotEqual"}  -> 2
      [] kind = "Equal"                       -> 1
      [] OTHER                                -> 0

GetPrecedence(kind) ==
    CASE kind \in {"Star", "Slash"}           -> 5
      [] kind \in {"Plus", "Minus"}           -> 4
      [] kind \in {"LessThan", "GreaterThan"} -> 3
      [] kind \in {"EqualEqual", "NotEqual"}  -> 2
      [] kind = "Equal"                       -> 1
      [] OTHER                                -> -1

RECURSIVE ParseExpression(_, _)
RECURSIVE ParsePrimary(_, _)
RECURSIVE ParseBinary(_, _, _, _)
RECURSIVE ParseExprList(_, _, _)
RECURSIVE ParsePostfix(_, _, _)

\* do { list.push_back(parseExpression()); } while (match(Comma));
ParseExprList(toks, i, acc) ==
    LET Next(e) ==
            IF ~e.ok THEN Fatal(e.pos)
            ELSE IF Cur(toks, e.pos).kind = "Comma"
                 THEN ParseExprList(toks, e.pos + 1, Append(acc, e.node))
                 ELSE Parsed(Append(acc, e.node), e.pos)
    IN  Next(ParseExpression(toks, i))

\* the postfix loop of parsePrimary
ParsePostfix(toks, i, lhs) ==
    LET Member(m) ==
            IF ~m.ok THEN Fatal(m.pos)
            ELSE ParsePostfix(toks, m.pos, MemberAccessExpr(lhs, m.node.text))
        Index(index) ==
            IF ~index.ok THEN Fatal(index.pos)
            ELSE IF Cur(toks, index.pos).kind # "RBracket" THEN Fatal(index.pos)
            ELSE ParsePostfix(toks, index.pos + 1, IndexExpr(lhs, index.node))
    IN  IF Cur(toks, i).kind = "Dot" THEN Member(Consume(toks, i + 1, "Identifier"))
        ELSE IF Cur(toks, i).kind = "LBracket" THEN Index(ParseExpression(toks, i + 1))
        ELSE Parsed(lhs, i)

\* the primary productions of parsePrimary, before the postfix loop
ParseAtom(toks, i) ==
    LET cur == Cur(toks, i)
        Call(args) ==
            IF ~args.ok THEN Fatal(args.pos)
            ELSE IF Cur(toks, args.pos).kind # "RParen" THEN Fatal(args.pos)
            ELSE Parsed(CallExpr(cur.text, args.node), args.pos + 1)
        Array(elements) ==
            IF ~elements.ok THEN Fatal(elements.pos)
            ELSE IF Cur(toks, elements.pos).kind # "RBracket" THEN Fatal(elements.pos)
            ELSE Parsed(ArrayLiteralExpr(elements.node), elements.pos + 1)
        Group(inner) ==
            IF ~inner.ok THEN Fatal(inner.pos)
            ELSE IF Cur(toks, inner.pos).kind # "RParen" THEN Fatal(inner.pos)
            ELSE Parsed(inner.node, inner.pos + 1)
    IN  IF cur.kind = "Identifier" THEN
            IF Cur(toks, i + 1).kind = "LParen"
            THEN Call(IF Cur(toks, i + 2).kind # "RParen"
                      THEN ParseExprList(toks, i + 2, <<>>)
                      ELSE Parsed(<<>>, i + 2))
            ELSE Parsed(VariableExpr(cur.text), i + 1)
        ELSE IF cur.kind = "Integer" THEN Parsed(LiteralExpr(cur.text, FALSE, FALSE, FALSE), i + 1)
        ELSE IF cur.kind = "Float" THEN Parsed(LiteralExpr(cur.text, TRUE, FALSE, FALSE), i + 1)
        ELSE IF cur.kind = "True" THEN Parsed(LiteralExpr("true", FALSE, TRUE, FALSE), i + 1)
        ELSE IF cur.kind = "False" THEN Parsed(LiteralExpr("false", FALSE, TRUE, FALSE), i + 1)
        ELSE IF cur.kind = "String" THEN Parsed(LiteralExpr(cur.text, FALSE, FALSE, TRUE), i + 1)
        ELSE IF cur.kind = "LBracket"
        THEN Array(IF Cur(toks, i + 1).kind # "RBracket"
                   THEN ParseExprList(toks, i + 1, <<>>)
                   ELSE Parsed(<<>>, i + 1))
        ELSE IF cur.kind = "LParen" THEN Group(ParseExpression(toks, i + 1))
        ELSE Fatal(i)

ParsePrimary(toks, i) ==
    LET Postfix(lhs) ==
            IF ~lhs.ok THEN Fatal(lhs.pos) ELSE ParsePostfix(toks, lhs.pos, lhs.node)
    IN  Postfix(ParseAtom(toks, i))

\* Parser::parseBinary: one iteration of its loop, then the rest of the loop
ParseBinary(toks, i, exprPrec, lhs) ==
    LET rangePrec == GetPrecedence(Cur(toks, i).kind)
        opToken   == Cur(toks, i)
        Tighter(rhs) ==
            IF rhs.ok /\ rangePrec < GetPrecedence(Cur(toks, rhs.pos).kind)
            THEN ParseBinary(toks, rhs.pos, rangePrec + 1, rhs.node)
            ELSE rhs
        Rest(rhs) ==
            IF ~rhs.ok THEN Fatal(rhs.pos)
            ELSE ParseBinary(toks, rhs.pos, exprPrec, BinaryExpr(opToken.text, lhs, rhs.node))
    IN  IF rangePrec < exprPrec THEN Parsed(lhs, i)
        ELSE Rest(Tighter(ParsePrimary(toks, i + 1)))

ParseExpression(toks, i) ==
    LET Binary(lhs) ==
            IF ~lhs.ok THEN Fatal(lhs.pos) ELSE ParseBinary(toks, lhs.pos, 0, lhs.node)
    IN  Binary(ParsePrimary(toks, i))

-----------------------------------------------------------------------------
(* Statements.  An absent expression or block (nullptr) is NullNode.  A type *)
(* name is the identifier and the number of "[]" pairs parseTypeName read.   *)

NullNode == [node |-> "null"]

TypeName(base, dims) == [base |-> base, dims |-> dims]

\* the empty type name ""
NoTypeName == TypeName("", 0)

ExprStmt(e) == [node |-> "ExprStmt", expr |-> e]

ReturnStmt(value) == [node |-> "Return", value |-> value]

Block(statements) == [node |-> "Block", statements |-> statements]

IfStmt(cond, thenB, elseB) ==
    [node |-> "If", condition |-> cond, thenBranch |-> thenB, elseBranch |-> elseB]

WhileStmt(cond, body) == [node |-> "While", condition |-> cond, body |-> body]

VarDeclStmt(name, typeName, init) ==
    [node |-> "VarDecl", name |-> name, typeName |-> typeName, initializer |-> init]

\* a parameter or a field: (name, type name)
Decl(name, typeName) == [name |-> name, typeName |-> typeName]

FunctionStmt(name, params, returnType, body) ==
    [node |-> "Function", name |-> name, params |-> params,
     returnType |-> returnType, body |-> body]

StructDeclStmt(name, fields) == [node |-> "StructDecl", name |-> name, fields |-> fields]

-----------------------------------------------------------------------------
(* Parser: statements and declarations.  Results are [ok, node, pos] as for  *)
(* expressions; a list result carries the sequence in node.                  *)

RECURSIVE ParseDims(_, _, _, _)
\* the "[]" loop of parseTypeName
ParseDims(toks, i, base, dims) ==
    IF Cur(toks, i).kind = "LBracket"
    THEN IF Cur(toks, i + 1).kind = "RBracket"
         THEN ParseDims(toks, i + 2, base, dims + 1)
         ELSE Fatal(i + 1)
    ELSE Parsed(TypeName(base, dims), i)

ParseTypeName(toks, i) ==
    IF Cur(toks, i).kind = "Identifier" THEN ParseDims(toks, i + 1, Cur(toks, i).text, 0)
    ELSE Fatal(i)

RECURSIVE ParseParamList(_, _, _)
\* do { name ':' type } while (match(Comma)) of parseFunction and parseExtern
ParseParamList(toks, i, acc) ==
    LET Typed(t) ==
            IF ~t.ok THEN Fatal(t.pos)
            ELSE IF Cur(toks, t.pos).kind = "Comma"
            THEN ParseParamList(toks, t.pos + 1, Append(acc, Decl(Cur(toks, i).text, t.node)))
            ELSE Parsed(Append(acc, Decl(Cur(toks, i).text, t.node)), t.pos)
    IN  IF Cur(toks, i).kind # "Identifier" THEN Fatal(i)
        ELSE IF Cur(toks, i + 1).kind # "Colon" THEN Fatal(i + 1)
        ELSE Typed(ParseTypeName(toks, i + 2))

\* name '(' params ')' [ '->' type ], the part parseFunction and parseExtern share
ParseSignature(toks, i) ==
    LET Returning(params, t) ==
            IF ~t.ok THEN Fatal(t.pos)
            ELSE Parsed([name |-> Cur(toks, i).text, params |-> params,
                         returnType |-> t.node], t.pos)
        Close(params) ==
            IF ~params.ok THEN Fatal(params.pos)
            ELSE IF Cur(toks, params.pos).kind # "RParen" THEN Fatal(params.pos)
            ELSE Returning(params.node,
                           IF Cur(toks, params.pos + 1).kind = "Arrow"
                           THEN ParseTypeName(toks, params.pos + 2)
                           ELSE Parsed(TypeName("void", 0), params.pos + 1))
    IN  IF Cur(toks, i).kind # "Identifier" THEN Fatal(i)
        ELSE IF Cur(toks, i + 1).kind # "LParen" THEN Fatal(i + 1)
        ELSE Close(IF Cur(toks, i + 2).kind # "RParen"
                   THEN ParseParamList(toks, i + 2, <<>>)
                   ELSE Parsed(<<>>, i + 2))

\* Parser::parseExtern, called with currentToken = Extern
ParseExtern(toks, i) ==
    LET Declared(sig) ==
            IF ~sig.ok THEN Fatal(sig.pos)
            ELSE Parsed(FunctionStmt(sig.node.name, sig.node.params,
                                     sig.node.returnType, NullNode), sig.pos)
    IN  IF Cur(toks, i + 1).kind # "Def" THEN Fatal(i + 1)
        ELSE Declared(ParseSignature(toks, i + 2))

\* a var production that accepts a declaration with neither type nor initializer
AcceptBareVar(toks, i, typeName) == Parsed(NullNode, i)

\* the check at the end of the var production: with no type name and no
\* initializer, consume(Equal) on a token that is not Equal
RequireTypeOrInitializer(toks, i, typeName) ==
    IF typeName = NoTypeName THEN Consume(toks, i, "Equal") ELSE Parsed(NullNode, i)

RECURSIVE ParseStatement(_, _)
RECURSIVE ParseBlock(_, _, _)

\* Parser::parseBlock
ParseBlock(toks, i, acc) ==
    LET Next(s) ==
            IF ~s.ok THEN Fatal(s.pos) ELSE ParseBlock(toks, s.pos, Append(acc, s.node))
    IN  IF Cur(toks, i).kind \in {"End", "Else", "EndOfFile"} THEN Parsed(Block(acc), i)
        ELSE Next(ParseStatement(toks, i))

\* Parser::parseStatement
ParseStatement(toks, i) ==
    LET Return(e) == IF ~e.ok THEN Fatal(e.pos) ELSE Parsed(ReturnStmt(e.node), e.pos)
        EndIf(cond, thenB, elseB) ==
            IF ~elseB.ok THEN Fatal(elseB.pos)
            ELSE IF Cur(toks, elseB.pos).kind # "End" THEN Fatal(elseB.pos)
            ELSE Parsed(IfStmt(cond, thenB, elseB.node), elseB.pos + 1)
        Else(cond, thenB) ==
            IF ~thenB.ok THEN Fatal(thenB.pos)
            ELSE EndIf(cond, thenB.node,
                       IF Cur(toks, thenB.pos).kind = "Else"
                       THEN ParseBlock(toks, thenB.pos + 1, <<>>)
                       ELSE Parsed(NullNode, thenB.pos))
        Then(cond) ==
            IF ~cond.ok THEN Fatal(cond.pos)
            ELSE Else(cond.node, ParseBlock(toks, cond.pos, <<>>))
        EndWhile(cond, body) ==
            IF ~body.ok THEN Fatal(body.pos)
            ELSE IF Cur(toks, body.pos).kind # "End" THEN Fatal(body.pos)
            ELSE Parsed(WhileStmt(cond, body.node), body.pos + 1)
        Do(cond) ==
            IF ~cond.ok THEN Fatal(cond.pos)
            ELSE EndWhile(cond.node, ParseBlock(toks, cond.pos, <<>>))
        Declare(name, typeName, init) ==
            IF ~init.ok THEN Fatal(init.pos)
            ELSE Parsed(VarDeclStmt(name, typeName, init.node), init.pos)
        Initializer(name, t) ==
            IF ~t.ok THEN Fatal(t.pos)
            ELSE Declare(name, t.node,
                         IF Cur(toks, t.pos).kind = "Equal"
                         THEN ParseExpression(toks, t.pos + 1)
                         ELSE RequireTypeOrInitializer(toks, t.pos, t.node))
        Var(name) ==
            IF ~name.ok THEN Fatal(name.pos)
            ELSE Initializer(name.node.text,
                             IF Cur(toks, name.pos).kind = "Colon"
                             THEN ParseTypeName(toks, name.pos + 1)
                             ELSE Parsed(NoTypeName, name.pos))
        Expression(e) == IF ~e.ok THEN Fatal(e.pos) ELSE Parsed(ExprStmt(e.node), e.pos)
    IN  CASE Cur(toks, i).kind = "Return" ->
                IF Cur(toks, i + 1).kind \in {"End", "EndOfFile", "Else"}
                THEN Parsed(ReturnStmt(NullNode), i + 1)
                ELSE Return(ParseExpression(toks, i + 1))
          [] Cur(toks, i).kind = "If"    -> Then(ParseExpression(toks, i + 1))
          [] Cur(toks, i).kind = "While" -> Do(ParseExpression(toks, i + 1))
          [] Cur(toks, i).kind = "Var"   -> Var(Consume(toks, i + 1, "Identifier"))
          [] OTHER                       -> Expression(ParseExpression(toks, i))

\* Parser::parseFunction, called with currentToken = Def
ParseFunction(toks, i) ==
    LET End(sig, body) ==
            IF ~body.ok THEN Fatal(body.pos)
            ELSE IF Cur(toks, body.pos).kind # "End" THEN Fatal(body.pos)
            ELSE Parsed(FunctionStmt(sig.name, sig.params, sig.returnType, body.node),
                        body.pos + 1)
        Body(sig) ==
            IF ~sig.ok THEN Fatal(sig.pos)
            ELSE End(sig.node, ParseBlock(toks, sig.pos, <<>>))
    IN  Body(ParseSignature(toks, i + 1))

RECURSIVE ParseFields(_, _, _)
\* the field loop of parseStruct
ParseFields(toks, i, acc) ==
    LET Typed(t) ==
            IF ~t.ok THEN Fatal(t.pos)
            ELSE ParseFields(toks, t.pos, Append(acc, Decl(Cur(toks, i).text, t.node)))
    IN  IF Cur(toks, i).kind \in {"End", "EndOfFile"} THEN Parsed(acc, i)
        ELSE IF Cur(toks, i).kind # "Identifier" THEN Fatal(i)
        ELSE IF Cur(toks, i + 1).kind # "Colon" THEN Fatal(i + 1)
        ELSE Typed(ParseTypeName(toks, i + 2))

\* Parser::parseStruct, called with currentToken = Struct
ParseStruct(toks, i) ==
    LET End(fields) ==
            IF ~fields.ok THEN Fatal(fields.pos)
            ELSE IF Cur(toks, fields.pos).kind # "End" THEN Fatal(fields.pos)
            ELSE Parsed(StructDeclStmt(Cur(toks, i + 1).text, fields.node), fields.pos + 1)
    IN  IF Cur(toks, i + 1).kind # "Identifier" THEN Fatal(i + 1)
        ELSE End(ParseFields(toks, i + 2, <<>>))

RECURSIVE ParseModule(_, _, _)
\* Parser::parseModule
ParseModule(toks, i, acc) ==
    LET Next(s) ==
            IF ~s.ok THEN Fatal(s.pos) ELSE ParseModule(toks, s.pos, Append(acc, s.node))
    IN  IF Cur(toks, i).kind = "EndOfFile" THEN Parsed(acc, i)
        ELSE Next(CASE Cur(toks, i).kind = "Def"    -> ParseFunction(toks, i)
                    [] Cur(toks, i).kind = "Struct" -> ParseStruct(toks, i)
                    [] Cur(toks, i).kind = "Extern" -> ParseExtern(toks, i)
                    [] OTHER                        -> ParseStatement(toks, i))

-----------------------------------------------------------------------------
(* Maps (std::map) as functions with a finite domain *)

EmptyMap == [k \in {} |-> NullNode]

Has(m, k) == k \in DOMAIN m

Put(m, k, v) == [x \in (DOMAIN m) \cup {k} |-> IF x = k THEN v ELSE m[x]]

-----------------------------------------------------------------------------
(* Semantic types *)

VoidType == [kind |-> "Void"]

IntType == [kind |-> "Int"]

FloatType == [kind |-> "Float"]

BoolType == [kind |-> "Bool"]

StringType == [kind |-> "String"]

\* fields: a sequence of [name, type]
StructType(name, fields) == [kind |-> "Struct", name |-> name, fields |-> fields]

ArrayType(elementType) == [kind |-> "Array", elementType |-> elementType]

FunctionType(ret, params) ==
    [kind |-> "Function", returnType |-> ret, paramTypes |-> params]

\* the positions of the fields named memberName, in declaration order
FieldPositions(fields, memberName) ==
    {i \in 1..Len(fields) : fields[i].name = memberName}

FirstOf(S) == CHOOSE i \in S : \A j \in S : i <= j

LastOf(S) == CHOOSE i \in S : \A j \in S : j <= i

\* StructType::getMemberType: the type of the first field of that name, or null
GetMemberType(st, memberName) ==
    LET at == FieldPositions(st.fields, memberName)
    IN  IF at = {} THEN NullType ELSE st.fields[FirstOf(at)].type

\* StructType::getMemberIndex: the 0-based index of the first field of that name, or -1
GetMemberIndex(st, memberName) ==
    LET at == FieldPositions(st.fields, memberName)
    IN  IF at = {} THEN -1 ELSE FirstOf(at) - 1

-----------------------------------------------------------------------------
(* Sema (TypeChecker).  Its state is [symbolTable, structDefs,               *)
(* currentFunctionReturnType].                                               *)

SemaInitState ==
    [symbolTable |-> EmptyMap, structDefs |-> EmptyMap,
     currentFunctionReturnType |-> NullType]

RECURSIVE ResolveType(_, _)
ResolveType(sema, name) ==
    IF      name = TypeName("int", 0)    THEN IntType
    ELSE IF name = TypeName("float", 0)  THEN FloatType
    ELSE IF name = TypeName("bool", 0)   THEN BoolType
    ELSE IF name = TypeName("string", 0) THEN StringType
    ELSE IF name = TypeName("void", 0)   THEN VoidType
    ELSE IF name.dims = 0 /\ Has(sema.structDefs, name.base) THEN sema.structDefs[name.base]
    ELSE IF name.dims > 0 /\ (name.base # "" \/ name.dims > 1)
         THEN ArrayType(ResolveType(sema, TypeName(name.base, name.dims - 1)))
    ELSE VoidType

SemaLiteral(e) ==
    [e EXCEPT !.type = IF e.isBool THEN BoolType
                       ELSE IF e.isString THEN StringType
                       ELSE IF e.isFloat THEN FloatType
                       ELSE IntType]

SemaVariable(sema, e) ==
    [e EXCEPT !.type = IF Has(sema.symbolTable, e.name)
                       THEN sema.symbolTable[e.name] ELSE VoidType]

RECURSIVE SemaExpr(_, _)

SemaBinary(sema, e) ==
    LET l == SemaExpr(sema, e.left)
        r == SemaExpr(sema, e.right)
    IN  IF e.op = "="
        THEN IF e.left.node \in {"Variable", "MemberAccess", "Index"}
             THEN [e EXCEPT !.left = l, !.right = r, !.type = r.type]
             ELSE [e EXCEPT !.type = VoidType]
        ELSE IF l.type.kind = "Int" /\ r.type.kind = "Int"
             THEN [e EXCEPT !.left = l, !.right = r, !.type = IntType]
             ELSE [e EXCEPT !.left = l, !.right = r, !.type = l.type]

SemaCall(sema, e) ==
    LET args == [i \in 1..Len(e.args) |-> SemaExpr(sema, e.args[i])]
        type == IF Has(sema.symbolTable, e.callee)
                THEN IF sema.symbolTable[e.callee].kind = "Function"
                     THEN sema.symbolTable[e.callee].returnType
                     ELSE VoidType
                ELSE VoidType
    IN  [e EXCEPT !.args = args, !.type = type]

SemaMemberAccess(sema, e) ==
    LET object == SemaExpr(sema, e.object)
        type   == IF object.type.kind # "Struct" THEN VoidType
                  ELSE IF GetMemberType(object.type, e.member) = NullType THEN VoidType
                  ELSE GetMemberType(object.type, e.member)
    IN  [e EXCEPT !.object = object, !.type = type]

SemaIndex(sema, e) ==
    LET object == SemaExpr(sema, e.object)
        index  == SemaExpr(sema, e.index)
        type   == IF object.type.kind # "Array" THEN VoidType
                  ELSE object.type.elementType
    IN  [e EXCEPT !.object = object, !.index = index, !.type = type]

\* a visit that gives the literal the type array of its last element's type
SemaArrayLiteralOfLast(sema, e) ==
    IF e.elements = <<>> THEN [e EXCEPT !.type = ArrayType(IntType)]
    ELSE LET elements == [i \in 1..Len(e.elements) |-> SemaExpr(sema, e.elements[i])]
         IN  [e EXCEPT !.elements = elements,
                       !.type = ArrayType(elements[Len(elements)].type)]

SemaArrayLiteral(sema, e) ==
    IF e.elements = <<>> THEN [e EXCEPT !.type = ArrayType(IntType)]
    ELSE LET elements == [i \in 1..Len(e.elements) |-> SemaExpr(sema, e.elements[i])]
         IN  [e EXCEPT !.elements = elements, !.type = ArrayType(elements[1].type)]

\* expr->accept(typeChecker): the expression with its type slots filled
SemaExpr(sema, e) ==
    CASE e.node = "Literal"      -> SemaLiteral(e)
      [] e.node = "Variable"     -> SemaVariable(sema, e)
      [] e.node = "Binary"       -> SemaBinary(sema, e)
      [] e.node = "Call"         -> SemaCall(sema, e)
      [] e.node = "MemberAccess" -> SemaMemberAccess(sema, e)
      [] e.node = "Index"        -> SemaIndex(sema, e)
      [] e.node = "ArrayLiteral" -> SemaArrayLiteral(sema, e)

\* a statement visit returns the annotated statement and the new Sema state
Visited(stmt, state) == [stmt |-> stmt, state |-> state]

RECURSIVE SemaStmt(_, _)
RECURSIVE SemaStmts(_, _, _)

\* for (s : statements) s->accept(*this)
SemaStmts(sema, stmts, done) ==
    IF stmts = <<>> THEN Visited(done, sema)
    ELSE LET v == SemaStmt(sema, Head(stmts))
         IN  SemaStmts(v.state, Tail(stmts), Append(done, v.stmt))

SemaBlock(sema, b) ==
    LET v == SemaStmts(sema, b.statements, <<>>)
    IN  Visited([b EXCEPT !.statements = v.stmt], v.state)

SemaReturn(sema, s) ==
    IF s.value # NullNode
    THEN Visited([s EXCEPT !.value = SemaExpr(sema, s.value)], sema)
    ELSE Visited(s, sema)

SemaIf(sema, s) ==
    LET cond  == SemaExpr(sema, s.condition)
        thenB == SemaBlock(sema, s.thenBranch)
        elseB == IF s.elseBranch # NullNode
                 THEN SemaBlock(thenB.state, s.elseBranch)
                 ELSE Visited(NullNode, thenB.state)
    IN  Visited([s EXCEPT !.condition = cond, !.thenBranch = thenB.stmt,
                          !.elseBranch = elseB.stmt], elseB.state)

SemaWhile(sema, s) ==
    LET cond == SemaExpr(sema, s.condition)
        body == SemaBlock(sema, s.body)
    IN  Visited([s EXCEPT !.condition = cond, !.body = body.stmt], body.state)

RECURSIVE BindParams(_, _, _, _)
BindParams(table, params, paramTypes, i) ==
    IF i > Len(params) THEN table
    ELSE BindParams(Put(table, params[i].name, paramTypes[i]), params, paramTypes, i + 1)

\* a visit of a function that leaves the scope of its body in place
SemaFunctionKeepsScope(sema, s) ==
    LET paramTypes == [i \in 1..Len(s.params) |-> ResolveType(sema, s.params[i].typeName)]
        returnType == ResolveType(sema, s.returnType)
        funcType   == FunctionType(returnType, paramTypes)
        registered == [sema EXCEPT !.symbolTable = Put(@, s.name, funcType)]
    IN  IF s.body = NullNode THEN Visited(s, registered)
        ELSE LET entered == [registered EXCEPT
                                !.currentFunctionReturnType = returnType,
                                !.symbolTable = BindParams(@, s.params, paramTypes, 1)]
                 body    == SemaBlock(entered, s.body)
             IN  Visited([s EXCEPT !.body = body.stmt], body.state)

SemaFunction(sema, s) ==
    LET paramTypes == [i \in 1..Len(s.params) |-> ResolveType(sema, s.params[i].typeName)]
        returnType == ResolveType(sema, s.returnType)
        funcType   == FunctionType(returnType, paramTypes)
        registered == [sema EXCEPT !.symbolTable = Put(@, s.name, funcType)]
    IN  IF s.body = NullNode THEN Visited(s, registered)
        ELSE LET oldTable == registered.symbolTable
                 entered  == [registered EXCEPT
                                 !.currentFunctionReturnType = returnType,
                                 !.symbolTable = BindParams(@, s.params, paramTypes, 1)]
                 body     == SemaBlock(entered, s.body)
             IN  Visited([s EXCEPT !.body = body.stmt],
                         [body.state EXCEPT !.symbolTable = oldTable])

SemaVarDecl(sema, s) ==
    LET init == IF s.initializer # NullNode THEN SemaExpr(sema, s.initializer) ELSE NullNode
        type == IF s.initializer # NullNode
                THEN IF s.typeName # NoTypeName THEN ResolveType(sema, s.typeName)
                     ELSE init.type
                ELSE IF s.typeName # NoTypeName THEN ResolveType(sema, s.typeName)
                     ELSE VoidType
    IN  Visited([s EXCEPT !.initializer = init],
                [sema EXCEPT !.symbolTable = Put(@, s.name, type)])

SemaStructDecl(sema, s) ==
    LET fields == [i \in 1..Len(s.fields) |->
                      [name |-> s.fields[i].name,
                       type |-> ResolveType(sema, s.fields[i].typeName)]]
    IN  Visited(s, [sema EXCEPT !.structDefs = Put(@, s.name, StructType(s.name, fields))])

\* stmt->accept(typeChecker)
SemaStmt(sema, s) ==
    CASE s.node = "ExprStmt"   -> Visited([s EXCEPT !.expr = SemaExpr(sema, s.expr)], sema)
      [] s.node = "Return"     -> SemaReturn(sema, s)
      [] s.node = "Block"      -> SemaBlock(sema, s)
      [] s.node = "If"         -> SemaIf(sema, s)
      [] s.node = "While"      -> SemaWhile(sema, s)
      [] s.node = "Function"   -> SemaFunction(sema, s)
      [] s.node = "VarDecl"    -> SemaVarDecl(sema, s)
      [] s.node = "StructDecl" -> SemaStructDecl(sema, s)

RECURSIVE DiagnosticsOf(_, _)
RECURSIVE DiagnosticsOfAll(_, _)

\* the diagnostics of for (e : exprs) e->accept(*this), in order
DiagnosticsOfAll(sema, exprs) ==
    IF exprs = <<>> THEN <<>>
    ELSE DiagnosticsOf(sema, Head(exprs)) \o DiagnosticsOfAll(sema, Tail(exprs))

\* the "Type Error" lines that expr->accept(typeChecker) writes to std::cerr
DiagnosticsOf(sema, e) ==
    CASE e.node = "Literal" -> <<>>
      [] e.node = "Variable" ->
            IF Has(sema.symbolTable, e.name) THEN <<>> ELSE <<"Undefined variable">>
      [] e.node = "Binary" ->
            IF e.op = "=" /\ e.left.node \notin {"Variable", "MemberAccess", "Index"}
            THEN <<"Assignment to non-lvalue">>
            ELSE DiagnosticsOf(sema, e.left) \o DiagnosticsOf(sema, e.right)
      [] e.node = "Call" ->
            DiagnosticsOfAll(sema, e.args)
            \o (IF ~Has(sema.symbolTable, e.callee) THEN <<"Undefined function">>
                ELSE IF sema.symbolTable[e.callee].kind # "Function"
                     THEN <<"is not a function">>
                     ELSE <<>>)
      [] e.node = "MemberAccess" ->
            DiagnosticsOf(sema, e.object)
            \o (IF SemaExpr(sema, e).object.type.kind # "Struct"
                THEN <<"Member access on non-struct">>
                ELSE IF GetMemberType(SemaExpr(sema, e).object.type, e.member) = NullType
                     THEN <<"has no member">>
                     ELSE <<>>)
      [] e.node = "Index" ->
            DiagnosticsOf(sema, e.object) \o DiagnosticsOf(sema, e.index)
            \o (IF SemaExpr(sema, e).object.type.kind # "Array"
                THEN <<"Indexing non-array type">>
                ELSE IF SemaExpr(sema, e).index.type.kind # "Int"
                     THEN <<"Array index must be integer">>
                     ELSE <<>>)
      [] e.node = "ArrayLiteral" -> DiagnosticsOfAll(sema, e.elements)

\* TypeChecker::check on a fresh TypeChecker
SemaCheck(stmts) == SemaStmts(SemaInitState, stmts, <<>>)

-----------------------------------------------------------------------------
(* IR model.  A value is a constant, a function argument or the result of an *)
(* instruction (identified by the instruction's id); NullValue is nullptr.   *)

I64 == [t |-> "int", bits |-> 64]

I32 == [t |-> "int", bits |-> 32]

I1 == [t |-> "int", bits |-> 1]

Double == [t |-> "double"]

Ptr == [t |-> "ptr"]

IRVoid == [t |-> "void"]

IRStruct(name) == [t |-> "struct", name |-> name]

NoIRType == [t |-> "none"]

NullValue == [origin |-> "null", ty |-> NoIRType, id |-> 0]

\* a constant whose value no lowering decision depends on (a string, a double,
\* an allocation size, the null value of a type)
Constant(ty) == [origin |-> "const", ty |-> ty, id |-> 0]

\* llvm::ConstantInt::get(context, llvm::APInt(bits, v))
ConstantInt(ty, v) == [origin |-> "const", ty |-> ty, id |-> 0, value |-> v]

\* llvm::UndefValue::get(ty), and the poison value of a folded division by zero
UndefValue(ty) == [origin |-> "undef", ty |-> ty, id |-> 0]

Argument(ty, idx) == [origin |-> "arg", ty |-> ty, id |-> idx]

Result(ty, id) == [origin |-> "inst", ty |-> ty, id |-> id]

\* an alloca instruction handle as kept in namedValues; NullAlloca is nullptr
AllocaInst(id, allocatedType) == [id |-> id, allocatedType |-> allocatedType]

NullAlloca == AllocaInst(0, NoIRType)

\* index: the field index of a struct GEP, -1 on every other instruction
Instr(op, id, ty, args, targets, callee) ==
    [op |-> op, id |-> id, ty |-> ty, args |-> args, targets |-> targets,
     callee |-> callee, index |-> -1]

IsTerminator(i) == i.op \in {"ret", "br", "condbr"}

\* CodeGen's state after construction: an empty module, no insertion point
CodeGenInitState ==
    [functions |-> <<>>, blocks |-> <<>>, insertBlock |-> 0,
     namedValues |-> EmptyMap, structTypes |-> EmptyMap,
     structFieldIndices |-> EmptyMap, lastValue |-> NullValue, nextId |-> 1]

\* llvm::Function::Create(ft, ExternalLinkage, name, module): the module's symbol
\* table keeps the name if it is free and otherwise renames the new function
\* (name.1, name.2, ...); dup is that suffix, 0 for the unsuffixed name
CreateFunction(cg, name, paramTypes, retType) ==
    LET same == {i \in 1..Len(cg.functions) : cg.functions[i].name = name}
    IN  [cg EXCEPT !.functions =
            Append(@, [name |-> name, dup |-> Cardinality(same),
                       paramTypes |-> paramTypes, retType |-> retType,
                       blocks |-> <<>>])]

\* module->getFunction(name): the index of the function of that exact name, or 0
GetFunction(cg, name) ==
    LET at == {i \in 1..Len(cg.functions) :
                  cg.functions[i].name = name /\ cg.functions[i].dup = 0}
    IN  IF at = {} THEN 0 ELSE CHOOSE i \in at : TRUE

\* func->insert(func->end(), bb)
InsertBlock(cg, f, b) ==
    [cg EXCEPT !.functions[f].blocks = Append(@, b), !.blocks[b].parent = f]

\* llvm::BasicBlock::Create(context, name, parent); parent 0 leaves it detached.
\* The new block's id is Len(cg.blocks) + 1.
CreateBlock(cg, name, parent) ==
    LET b     == Len(cg.blocks) + 1
        added == [cg EXCEPT !.blocks = Append(@, [name |-> name, parent |-> 0, instrs |-> <<>>])]
    IN  IF parent = 0 THEN added ELSE InsertBlock(added, parent, b)

SetInsertPoint(cg, b) == [cg EXCEPT !.insertBlock = b]

\* BasicBlock::getTerminator() != nullptr: the block's last instruction is a terminator
HasTerminator(cg, b) ==
    /\ cg.blocks[b].instrs # <<>>
    /\ IsTerminator(cg.blocks[b].instrs[Len(cg.blocks[b].instrs)])

\* the builder appends an instruction at the insertion point; its id is cg.nextId
Emit(cg, op, ty, args, targets, callee) ==
    [cg EXCEPT !.blocks[cg.insertBlock].instrs =
                   Append(@, Instr(op, cg.nextId, ty, args, targets, callee)),
               !.nextId = @ + 1]

\* CodeGen::createEntryBlockAlloca: an alloca at the start of fun's entry block
CreateEntryBlockAlloca(cg, fun, type) ==
    LET entry == cg.functions[fun].blocks[1]
    IN  [cg EXCEPT !.blocks[entry].instrs =
                       <<Instr("alloca", cg.nextId, Ptr, <<>>, <<>>, "")>> \o @,
                   !.nextId = @ + 1]

\* TLC evaluates the argument of an operator when the operator first looks at
\* it.  A loop that hands the builder's state on without looking at it leaves
\* the lowering of every step pending until the last one, nested in one
\* evaluation; a loop that asks Started(cg) first lowers step by step.  The
\* instruction counter starts at 1, so Started holds of every state.
Started(cg) == cg.nextId >= 1

CurrentFunction(cg) == cg.blocks[cg.insertBlock].parent

RECURSIVE GetType(_, _)
\* CodeGen::getType
GetType(cg, typeName) ==
    IF      typeName = TypeName("int", 0)    THEN I64
    ELSE IF typeName = TypeName("float", 0)  THEN Double
    ELSE IF typeName = TypeName("bool", 0)   THEN I1
    ELSE IF typeName = TypeName("string", 0) THEN Ptr
    ELSE IF typeName = TypeName("void", 0)   THEN IRVoid
    ELSE IF typeName.dims > 0 THEN Ptr
    ELSE IF Has(cg.structTypes, typeName.base) THEN IRStruct(typeName.base)
    ELSE I64

\* the Sema-type to IR-type mapping repeated in visit(MemberAccessExpr&),
\* visit(IndexExpr&), visit(ArrayLiteralExpr&) and getLValueAddress; withString
\* tells whether the copy at hand has the String case; NoIRType when none applies
MapSemaType(cg, type, withString) ==
    IF      type.kind = "Int"   THEN I64
    ELSE IF type.kind = "Float" THEN Double
    ELSE IF type.kind = "Bool"  THEN I1
    ELSE IF type.kind = "String" /\ withString THEN Ptr
    ELSE IF type.kind = "Struct" /\ Has(cg.structTypes, type.name) THEN IRStruct(type.name)
    ELSE NoIRType

OrI64(ty) == IF ty = NoIRType THEN I64 ELSE ty

\* the result of a builder call: the new state and the value it returned
Built(cg, value) == [cg |-> cg, value |-> value]

MaxLiteral == 9

DecimalDigits == <<"0", "1", "2", "3", "4", "5", "6", "7", "8", "9">>

RECURSIVE Decimal(_)
\* the decimal text of a natural number
Decimal(n) ==
    IF n < 10 THEN DecimalDigits[n + 1]
    ELSE Decimal(n \div 10) \o DecimalDigits[(n % 10) + 1]

\* std::stoll on the text of an Integer token: the number that the digits denote
Stoll(text) == CHOOSE n \in 0..MaxLiteral : Decimal(n) = text

\* the constant folder of IRBuilder on two integer constants; sdiv truncates
\* towards zero and the comparisons give 1 or 0.  The values of the model stay
\* far below 2^63, so no result wraps.
Fold(op, a, b) ==
    CASE op = "add"      -> a + b
      [] op = "sub"      -> a - b
      [] op = "mul"      -> a * b
      [] op = "sdiv"     -> LET q == (IF a < 0 THEN -a ELSE a) \div (IF b < 0 THEN -b ELSE b)
                            IN  IF (a < 0) = (b < 0) THEN q ELSE -q
      [] op = "icmp slt" -> IF a < b THEN 1 ELSE 0
      [] op = "icmp sgt" -> IF a > b THEN 1 ELSE 0
      [] op = "icmp eq"  -> IF a = b THEN 1 ELSE 0
      [] op = "icmp ne"  -> IF a # b THEN 1 ELSE 0

\* IRBuilder's binary operators and comparisons: two constant operands are folded
\* to a constant, anything else appends an instruction
CreateBinOp(cg, op, ty, l, r) ==
    IF l.origin = "const" /\ r.origin = "const"
    THEN IF "value" \in DOMAIN l /\ "value" \in DOMAIN r
         THEN IF op = "sdiv" /\ r.value = 0 THEN Built(cg, UndefValue(ty))
              ELSE Built(cg, ConstantInt(ty, Fold(op, l.value, r.value)))
         ELSE Built(cg, Constant(ty))
    ELSE Built(Emit(cg, op, ty, <<l, r>>, <<>>, ""), Result(ty, cg.nextId))

\* builder.CreateLoad(type, addr)
CreateLoad(cg, ty, addr) ==
    [Emit(cg, "load", ty, <<addr>>, <<>>, "") EXCEPT !.lastValue = Result(ty, cg.nextId)]

\* builder.CreateStore(val, addr)
CreateStore(cg, val, addr) == Emit(cg, "store", IRVoid, <<val, addr>>, <<>>, "")

\* builder.CreateGEP(structTy, base, {0, idx})
CreateStructGEP(cg, base, idx) ==
    LET gep == [Instr("gep", cg.nextId, Ptr, <<base, Constant(I32), Constant(I32)>>, <<>>, "")
                   EXCEPT !.index = idx]
    IN  Built([cg EXCEPT !.blocks[cg.insertBlock].instrs = Append(@, gep), !.nextId = @ + 1],
              Result(Ptr, cg.nextId))

\* builder.CreateGEP(elemTy, ptr, index)
CreateElementGEP(cg, ptr, index) ==
    Built(Emit(cg, "gep", Ptr, <<ptr, index>>, <<>>, ""), Result(Ptr, cg.nextId))

-----------------------------------------------------------------------------
(* CodeGen: expressions.  CGExpr is expr->accept(codegen): the new state,    *)
(* with the expression's value in lastValue.                                 *)

RECURSIVE CGExpr(_, _)
RECURSIVE GetLValueAddress(_, _)
RECURSIVE CGCallArgs(_, _, _, _)
RECURSIVE CGStoreElements(_, _, _, _)

CGLiteral(cg, e) ==
    [cg EXCEPT !.lastValue = IF e.isBool
                             THEN ConstantInt(I1, IF e.value = "true" THEN 1 ELSE 0)
                             ELSE IF e.isString THEN Constant(Ptr)
                             ELSE IF e.isFloat THEN Constant(Double)
                             ELSE ConstantInt(I64, Stoll(e.value))]

\* namedValues[expr.name] default-inserts a null entry for a missing name
CGVariable(cg, e) ==
    LET looked == IF Has(cg.namedValues, e.name) THEN cg
                  ELSE [cg EXCEPT !.namedValues = Put(@, e.name, NullAlloca)]
        alloca == looked.namedValues[e.name]
    IN  IF alloca = NullAlloca THEN [looked EXCEPT !.lastValue = NullValue]
        ELSE CreateLoad(looked, alloca.allocatedType, Result(Ptr, alloca.id))

\* an assignment that lowers the right side first and the address after it
CGAssignmentValueFirst(cg, e) ==
    LET Store(lval, val) ==
            IF lval.value = NullValue THEN [lval.cg EXCEPT !.lastValue = NullValue]
            ELSE IF val = NullValue THEN [lval.cg EXCEPT !.lastValue = NullValue]
            ELSE [CreateStore(lval.cg, val, lval.value) EXCEPT !.lastValue = val]
        Address(rhs) == Store(GetLValueAddress(rhs, e.left), rhs.lastValue)
    IN  Address(CGExpr(cg, e.right))

CGAssignment(cg, e) ==
    LET Store(rhs, addr) ==
            IF rhs.lastValue = NullValue THEN rhs
            ELSE [CreateStore(rhs, rhs.lastValue, addr) EXCEPT !.lastValue = rhs.lastValue]
        Assign(lval) ==
            IF lval.value = NullValue THEN [lval.cg EXCEPT !.lastValue = NullValue]
            ELSE Store(CGExpr(lval.cg, e.right), lval.value)
    IN  Assign(GetLValueAddress(cg, e.left))

CGBinary(cg, e) ==
    LET Combine(l, right) ==
            LET r     == right.lastValue
                built == CASE e.op = "+"  -> CreateBinOp(right, "add", l.ty, l, r)
                           [] e.op = "-"  -> CreateBinOp(right, "sub", l.ty, l, r)
                           [] e.op = "*"  -> CreateBinOp(right, "mul", l.ty, l, r)
                           [] e.op = "/"  -> CreateBinOp(right, "sdiv", l.ty, l, r)
                           [] e.op = "<"  -> CreateBinOp(right, "icmp slt", I1, l, r)
                           [] e.op = ">"  -> CreateBinOp(right, "icmp sgt", I1, l, r)
                           [] e.op = "==" -> CreateBinOp(right, "icmp eq", I1, l, r)
                           [] e.op = "!=" -> CreateBinOp(right, "icmp ne", I1, l, r)
                           [] OTHER       -> Built(right, NullValue)
            IN  IF l = NullValue \/ r = NullValue THEN [right EXCEPT !.lastValue = NullValue]
                ELSE [built.cg EXCEPT !.lastValue = built.value]
        Right(left) == Combine(left.lastValue, CGExpr(left, e.right))
    IN  IF e.op = "=" THEN CGAssignment(cg, e)
        ELSE Right(CGExpr(cg, e.left))

\* the argument loop of visit(CallExpr&): [cg, value = the values so far], stopping
\* at the first argument that lowers to null (ok = FALSE)
CGCallArgs(cg, args, i, argsV) ==
    LET Push(arg) ==
            IF arg.lastValue = NullValue THEN [cg |-> arg, ok |-> FALSE, argsV |-> argsV]
            ELSE CGCallArgs(arg, args, i + 1, Append(argsV, arg.lastValue))
    IN  IF i > Len(args) THEN [cg |-> cg, ok |-> TRUE, argsV |-> argsV]
        ELSE Push(CGExpr(cg, args[i]))

CGCall(cg, e) ==
    LET callee == GetFunction(cg, e.callee)
        Call(lowered, retType) ==
            IF ~lowered.ok THEN lowered.cg
            ELSE [Emit(lowered.cg, "call", retType, lowered.argsV, <<>>, e.callee)
                     EXCEPT !.lastValue = Result(retType, lowered.cg.nextId)]
    IN  IF callee = 0 THEN [cg EXCEPT !.lastValue = NullValue]
        ELSE IF Len(cg.functions[callee].paramTypes) # Len(e.args)
        THEN [cg EXCEPT !.lastValue = NullValue]
        ELSE Call(CGCallArgs(cg, e.args, 1, <<>>), cg.functions[callee].retType)

CGMemberAccess(cg, e) ==
    LET Load(addr) ==
            LET loadType == IF e.type # NullType THEN MapSemaType(addr.cg, e.type, TRUE)
                            ELSE NoIRType
            IN  IF addr.value = NullValue THEN [addr.cg EXCEPT !.lastValue = NullValue]
                ELSE CreateLoad(addr.cg, OrI64(loadType), addr.value)
    IN  Load(GetLValueAddress(cg, e))

CGIndex(cg, e) ==
    LET Load(addr) ==
            LET loadType == IF e.type # NullType THEN MapSemaType(addr.cg, e.type, FALSE)
                            ELSE NoIRType
            IN  IF addr.value = NullValue THEN [addr.cg EXCEPT !.lastValue = NullValue]
                ELSE CreateLoad(addr.cg, OrI64(loadType), addr.value)
    IN  Load(GetLValueAddress(cg, e))

\* the store loop of visit(ArrayLiteralExpr&)
CGStoreElements(cg, elements, i, arrayPtr) ==
    LET Store(elem, gep) ==
            CGStoreElements(CreateStore(gep.cg, elem.lastValue, gep.value),
                            elements, i + 1, arrayPtr)
        Element(elem) == Store(elem, CreateElementGEP(elem, arrayPtr, ConstantInt(I64, i - 1)))
    IN  IF Started(cg) /\ i > Len(elements) THEN cg
        ELSE Element(CGExpr(cg, elements[i]))

CGArrayLiteral(cg, e) ==
    LET declared == IF GetFunction(cg, "malloc") # 0 THEN cg
                    ELSE CreateFunction(cg, "malloc", <<I64>>, Ptr)
        called   == Emit(declared, "call", Ptr, <<Constant(I64)>>, <<>>, "malloc")
        arrayPtr == Result(Ptr, declared.nextId)
        stored   == CGStoreElements(called, e.elements, 1, arrayPtr)
    IN  [stored EXCEPT !.lastValue = arrayPtr]

CGExpr(cg, e) ==
    CASE e.node = "Literal"      -> CGLiteral(cg, e)
      [] e.node = "Variable"     -> CGVariable(cg, e)
      [] e.node = "Binary"       -> CGBinary(cg, e)
      [] e.node = "Call"         -> CGCall(cg, e)
      [] e.node = "MemberAccess" -> CGMemberAccess(cg, e)
      [] e.node = "Index"        -> CGIndex(cg, e)
      [] e.node = "ArrayLiteral" -> CGArrayLiteral(cg, e)

LValueOfVariable(cg, e) ==
    IF Has(cg.namedValues, e.name)
    THEN Built(cg, IF cg.namedValues[e.name] = NullAlloca THEN NullValue
                   ELSE Result(Ptr, cg.namedValues[e.name].id))
    ELSE Built(cg, NullValue)

\* the field index a member access uses: structFieldIndices[structName][member]
FieldIndexOf(cg, structName, member) == cg.structFieldIndices[structName][member]

LValueOfMember(cg, e) ==
    LET Field(base) ==
            IF base.value = NullValue THEN Built(base.cg, NullValue)
            ELSE IF e.object.type = NullType THEN Built(base.cg, NullValue)
            ELSE IF e.object.type.kind # "Struct" THEN Built(base.cg, NullValue)
            ELSE IF ~Has(base.cg.structTypes, e.object.type.name) THEN Built(base.cg, NullValue)
            ELSE IF ~Has(base.cg.structFieldIndices[e.object.type.name], e.member)
            THEN Built(base.cg, NullValue)
            ELSE CreateStructGEP(base.cg, base.value,
                                 FieldIndexOf(base.cg, e.object.type.name, e.member))
    IN  Field(GetLValueAddress(cg, e.object))

\* the Index case first calls getLValueAddress on the object and drops the result,
\* then lowers the object and the index as values
LValueOfIndex(cg, e) ==
    LET Element(arrayPtr, index) ==
            IF index.lastValue = NullValue THEN Built(index, NullValue)
            ELSE IF e.object.type = NullType THEN Built(index, NullValue)
            ELSE IF e.object.type.kind = "Array"
            THEN CreateElementGEP(index, arrayPtr, index.lastValue)
            ELSE Built(index, NullValue)
        Index(object) ==
            IF object.lastValue = NullValue THEN Built(object, NullValue)
            ELSE Element(object.lastValue, CGExpr(object, e.index))
    IN  Index(CGExpr(GetLValueAddress(cg, e.object).cg, e.object))

\* CodeGen::getLValueAddress: the new state and the address (NullValue for nullptr)
GetLValueAddress(cg, e) ==
    CASE e.node = "Variable"     -> LValueOfVariable(cg, e)
      [] e.node = "MemberAccess" -> LValueOfMember(cg, e)
      [] e.node = "Index"        -> LValueOfIndex(cg, e)
      [] OTHER                   -> Built(cg, NullValue)

-----------------------------------------------------------------------------
(* CodeGen: statements.  CGStmt is stmt->accept(codegen).                    *)

RECURSIVE CGStmt(_, _)
RECURSIVE CGStmts(_, _)

\* for (s : statements) s->accept(*this)
CGStmts(cg, stmts) ==
    IF Started(cg) /\ stmts = <<>> THEN cg
    ELSE CGStmts(CGStmt(cg, Head(stmts)), Tail(stmts))

CGBlock(cg, b) == CGStmts(cg, b.statements)

CGReturn(cg, s) ==
    LET Ret(value) == Emit(value, "ret", IRVoid, <<value.lastValue>>, <<>>, "")
    IN  IF s.value # NullNode THEN Ret(CGExpr(cg, s.value))
        ELSE Emit(cg, "ret", IRVoid, <<>>, <<>>, "")

\* a 64-bit integer condition is compared against 0 first
WidenCondition(cg, condV) ==
    IF condV.ty = I64 THEN CreateBinOp(cg, "icmp ne", I1, condV, ConstantInt(I64, 0))
    ELSE Built(cg, condV)

\* a branch appended whether or not the block is terminated
BranchAlways(cg, target) == Emit(cg, "br", IRVoid, <<>>, <<target>>, "")

\* if (!GetInsertBlock()->getTerminator()) CreateBr(target)
BranchUnlessTerminated(cg, target) ==
    IF HasTerminator(cg, cg.insertBlock) THEN cg
    ELSE Emit(cg, "br", IRVoid, <<>>, <<target>>, "")

CGIf(cg, s) ==
    LET hasElse == s.elseBranch # NullNode
        Else(thenEnd, func, elseBB, mergeBB) ==
            IF Started(thenEnd) /\ hasElse
            THEN BranchUnlessTerminated(
                     CGBlock(SetInsertPoint(InsertBlock(thenEnd, func, elseBB), elseBB),
                             s.elseBranch), mergeBB)
            ELSE thenEnd
        Merge(elseEnd, func, mergeBB) ==
            SetInsertPoint(InsertBlock(elseEnd, func, mergeBB), mergeBB)
        Then(condV, func, thenBB, elseBB, mergeBB) ==
            LET created  == CreateBlock(CreateBlock(CreateBlock(condV.cg, "then", func),
                                                    "else", 0), "ifcont", 0)
                branched == Emit(created, "condbr", IRVoid, <<condV.value>>,
                                 <<thenBB, IF hasElse THEN elseBB ELSE mergeBB>>, "")
            IN  BranchUnlessTerminated(
                    CGBlock(SetInsertPoint(branched, thenBB), s.thenBranch), mergeBB)
        Branch(condV, func, thenBB) ==
            Merge(Else(Then(condV, func, thenBB, thenBB + 1, thenBB + 2),
                       func, thenBB + 1, thenBB + 2),
                  func, thenBB + 2)
        Condition(condV) ==
            Branch(condV, CurrentFunction(condV.cg), Len(condV.cg.blocks) + 1)
        Lower(cond) ==
            IF cond.lastValue = NullValue THEN cond
            ELSE Condition(WidenCondition(cond, cond.lastValue))
    IN  Lower(CGExpr(cg, s.condition))

CGWhile(cg, s) ==
    LET func    == CurrentFunction(cg)
        condBB  == Len(cg.blocks) + 1
        loopBB  == condBB + 1
        afterBB == condBB + 2
        created == CreateBlock(CreateBlock(CreateBlock(cg, "whilecond", func),
                                           "whilebody", 0), "afterwhile", 0)
        jumped  == Emit(created, "br", IRVoid, <<>>, <<condBB>>, "")
        Loop(condV) ==
            LET branched == Emit(condV.cg, "condbr", IRVoid, <<condV.value>>,
                                 <<loopBB, afterBB>>, "")
                bodyEnd  == BranchUnlessTerminated(
                                CGBlock(SetInsertPoint(InsertBlock(branched, func, loopBB),
                                                       loopBB), s.body), condBB)
            IN  SetInsertPoint(InsertBlock(bodyEnd, func, afterBB), afterBB)
        Lower(cond) ==
            IF cond.lastValue = NullValue THEN cond
            ELSE Loop(WidenCondition(cond, cond.lastValue))
    IN  Lower(CGExpr(SetInsertPoint(jumped, condBB), s.condition))

CGVarDecl(cg, s) ==
    LET func == CurrentFunction(cg)
        Alloca(init, initVal, varType) ==
            LET alloca    == AllocaInst(init.nextId, varType)
                allocated == CreateEntryBlockAlloca(init, func, varType)
                stored    == CreateStore(allocated,
                                         IF initVal # NullValue THEN initVal
                                         ELSE Constant(varType),
                                         Result(Ptr, alloca.id))
            IN  [stored EXCEPT !.namedValues = Put(@, s.name, alloca)]
        Declare(init, initVal) ==
            IF s.typeName = NoTypeName /\ initVal = NullValue THEN init
            ELSE Alloca(init, initVal,
                        IF s.typeName # NoTypeName THEN GetType(init, s.typeName)
                        ELSE initVal.ty)
        Initialized(init) == Declare(init, init.lastValue)
    IN  IF s.initializer # NullNode THEN Initialized(CGExpr(cg, s.initializer))
        ELSE Declare(cg, NullValue)

\* the parameter loop of visit(FunctionStmt&): a stack slot per argument
RECURSIVE CGParams(_, _, _, _)
CGParams(cg, func, params, idx) ==
    IF idx > Len(cg.functions[func].paramTypes) THEN cg
    ELSE LET argType   == cg.functions[func].paramTypes[idx]
             alloca    == AllocaInst(cg.nextId, argType)
             allocated == CreateEntryBlockAlloca(cg, func, argType)
             stored    == CreateStore(allocated, Argument(argType, idx), Result(Ptr, alloca.id))
         IN  CGParams([stored EXCEPT !.namedValues = Put(@, params[idx].name, alloca)],
                      func, params, idx + 1)

\* a fabricated return that is `return void` whatever the return type
FabricateReturnVoid(cg, s, func) ==
    IF HasTerminator(cg, cg.insertBlock) THEN cg
    ELSE Emit(cg, "ret", IRVoid, <<>>, <<>>, "")

\* the return fabricated when the body's last block has no terminator
FabricateReturn(cg, s, func) ==
    IF HasTerminator(cg, cg.insertBlock) THEN cg
    ELSE IF s.returnType = TypeName("void", 0) THEN Emit(cg, "ret", IRVoid, <<>>, <<>>, "")
    ELSE LET retTy == cg.functions[func].retType
         IN  IF retTy.t = "int"
             THEN Emit(cg, "ret", IRVoid, <<ConstantInt(retTy, 0)>>, <<>>, "")
             ELSE Emit(cg, "ret", IRVoid, <<UndefValue(retTy)>>, <<>>, "")

\* visit(FunctionStmt&) without the final `namedValues = oldNamedValues`
CGFunctionKeepsBindings(cg, s) ==
    LET argTypes == [i \in 1..Len(s.params) |-> GetType(cg, s.params[i].typeName)]
        retType  == GetType(cg, s.returnType)
        func     == Len(cg.functions) + 1
        Restore(returned, oldBB) ==
            IF oldBB # 0 THEN SetInsertPoint(returned, oldBB) ELSE returned
        Body(withEntry, bb) ==
            Restore(FabricateReturn(
                        CGBlock(CGParams([SetInsertPoint(withEntry, bb)
                                             EXCEPT !.namedValues = EmptyMap],
                                         func, s.params, 1),
                                s.body),
                        s, func),
                    withEntry.insertBlock)
        Define(declared) ==
            IF s.body = NullNode THEN declared
            ELSE Body(CreateBlock(declared, "entry", func), Len(declared.blocks) + 1)
    IN  Define(CreateFunction(cg, s.name, argTypes, retType))

CGFunction(cg, s) ==
    LET argTypes == [i \in 1..Len(s.params) |-> GetType(cg, s.params[i].typeName)]
        retType  == GetType(cg, s.returnType)
        func     == Len(cg.functions) + 1
        Restore(returned, oldBB, oldNamedValues) ==
            [(IF oldBB # 0 THEN SetInsertPoint(returned, oldBB) ELSE returned)
                EXCEPT !.namedValues = oldNamedValues]
        Body(withEntry, bb) ==
            Restore(FabricateReturn(
                        CGBlock(CGParams([SetInsertPoint(withEntry, bb)
                                             EXCEPT !.namedValues = EmptyMap],
                                         func, s.params, 1),
                                s.body),
                        s, func),
                    withEntry.insertBlock, withEntry.namedValues)
        Define(declared) ==
            IF s.body = NullNode THEN declared
            ELSE Body(CreateBlock(declared, "entry", func), Len(declared.blocks) + 1)
    IN  Define(CreateFunction(cg, s.name, argTypes, retType))

\* the fieldIndices map built by visit(StructDeclStmt&): fieldIndices[name] = idx++
\* for each field in order, so a later field of the same name overwrites
FieldIndices(fields) ==
    [n \in {fields[i].name : i \in 1..Len(fields)} |->
        LastOf(FieldPositions(fields, n)) - 1]

CGStructDecl(cg, s) ==
    IF Has(cg.structTypes, s.name) THEN cg
    ELSE LET fieldTypes == [i \in 1..Len(s.fields) |-> GetType(cg, s.fields[i].typeName)]
         IN  [cg EXCEPT !.structTypes = Put(@, s.name, fieldTypes),
                        !.structFieldIndices = Put(@, s.name, FieldIndices(s.fields))]

CGStmt(cg, s) ==
    CASE s.node = "ExprStmt"   -> CGExpr(cg, s.expr)
      [] s.node = "Return"     -> CGReturn(cg, s)
      [] s.node = "Block"      -> CGBlock(cg, s)
      [] s.node = "If"         -> CGIf(cg, s)
      [] s.node = "While"      -> CGWhile(cg, s)
      [] s.node = "Function"   -> CGFunction(cg, s)
      [] s.node = "VarDecl"    -> CGVarDecl(cg, s)
      [] s.node = "StructDecl" -> CGStructDecl(cg, s)

\* an entry name chosen without looking for a user-defined main
EntryNameAlwaysMain(stmts) == "main"

\* the name generate gives the implicit entry function
EntryName(stmts) ==
    IF \E i \in 1..Len(stmts) : stmts[i].node = "Function" /\ stmts[i].name = "main"
    THEN "__init" ELSE "main"

\* CodeGen::generate on a fresh CodeGen
Generate(stmts) ==
    LET entryFunc == CreateFunction(CodeGenInitState, EntryName(stmts), <<>>, I64)
        bb        == SetInsertPoint(CreateBlock(entryFunc, "entry", 1), 1)
        Finish(lowered) ==
            IF HasTerminator(lowered, lowered.insertBlock) THEN lowered
            ELSE Emit(lowered, "ret", IRVoid, <<ConstantInt(I64, 0)>>, <<>>, "")
    IN  Finish(CGStmts(bb, stmts))

-----------------------------------------------------------------------------
(* Compilation: executeSource runs TypeChecker::check and then               *)
(* CodeGen::generate on the parsed module, whatever Sema diagnosed.          *)

\* checker.check(statements)
TypeCheck ==
    /\ stage = "parsed"
    /\ LET v == SemaCheck(input)
       IN  output' = [done |-> TRUE, ast |-> v.stmt, sema |-> v.state,
                      cg |-> CodeGenInitState]
    /\ stage' = "checked"
    /\ UNCHANGED <<lexerVars, input>>

\* codegen.generate(statements)
GenerateCode ==
    /\ stage = "checked"
    /\ output' = [output EXCEPT !.cg = Generate(output.ast)]
    /\ stage' = "generated"
    /\ UNCHANGED <<lexerVars, input>>

CompileNext == TypeCheck \/ GenerateCode

CompileInit(modules) ==
    /\ LexIdle
    /\ stage = "parsed"
    /\ input \in modules
    /\ output = NoOutput

One == LiteralExpr("1", FALSE, FALSE, FALSE)

IntName == TypeName("int", 0)

FloatName == TypeName("float", 0)

VoidName == TypeName("void", 0)

-----------------------------------------------------------------------------
(* Control flow: blocks, if/else, while and return, nested, at top level and *)
(* in a function body                                                        *)

\* a constant condition and one that lowers to null (an undeclared variable)
Conditions == {One, VariableExpr("u")}

SimpleStmts == {ReturnStmt(One), ExprStmt(One)}

RECURSIVE NestedStmts(_)
NestedStmts(depth) ==
    IF depth = 0 THEN SimpleStmts
    ELSE LET blocks == {Block(b) : b \in SeqsUpTo(NestedStmts(depth - 1), MaxBlockLen)}
         IN  SimpleStmts
             \cup {IfStmt(c, t, NullNode) : c \in Conditions, t \in blocks}
             \cup {IfStmt(c, t, e) : c \in Conditions, t \in blocks, e \in blocks}
             \cup {WhileStmt(c, b) : c \in Conditions, b \in blocks}

\* up to MaxBodyLen statements nested once, or one statement nested twice
Bodies == SeqsUpTo(NestedStmts(1), MaxBodyLen) \cup {<<s>> : s \in NestedStmts(2)}

ControlFlowModules ==
    Bodies \cup {<<FunctionStmt("f", <<>>, IntName, Block(b))>> : b \in Bodies}

ControlFlowSpec == CompileInit(ControlFlowModules) /\ [][CompileNext]_vars

\* the ids of the blocks inserted into some function of the module
InsertedBlocks(cg) ==
    UNION {{cg.functions[f].blocks[k] : k \in 1..Len(cg.functions[f].blocks)} :
              f \in 1..Len(cg.functions)}

\* C1: after generate, every basic block inserted into a function holds exactly
\* one terminator, and it is the block's last instruction.
C1_OneTerminatorPerBlock ==
    stage = "generated" =>
        \A b \in InsertedBlocks(output.cg) :
            LET instrs == output.cg.blocks[b].instrs
            IN  /\ Cardinality({k \in 1..Len(instrs) : IsTerminator(instrs[k])}) = 1
                /\ IsTerminator(instrs[Len(instrs)])

-----------------------------------------------------------------------------
(* Sema: expressions of every kind, and assignments to each of them, in every *)
(* statement position                                                        *)

SemaPreamble ==
    <<VarDeclStmt("x", IntName, One),
      FunctionStmt("f", <<Decl("a", IntName)>>, IntName, NullNode),
      StructDeclStmt("S", <<Decl("x", IntName)>>),
      VarDeclStmt("s", TypeName("S", 0), NullNode),
      VarDeclStmt("arr", TypeName("int", 1), NullNode)>>

Atoms == {One, VariableExpr("x"), VariableExpr("u"), VariableExpr("s"), VariableExpr("arr")}

Operands == {One, VariableExpr("x")}

\* one expression of every kind over the atoms
FlatExprs ==
    Atoms
    \cup {BinaryExpr("+", a, b) : a \in Atoms, b \in Operands}
    \cup {CallExpr("f", <<a>>) : a \in Atoms}
    \cup {MemberAccessExpr(a, "x") : a \in Atoms}
    \cup {IndexExpr(a, b) : a \in Atoms, b \in Operands}
    \cup {ArrayLiteralExpr(<<>>)} \cup {ArrayLiteralExpr(<<a>>) : a \in Atoms}

Assignments == {BinaryExpr("=", l, r) : l \in FlatExprs, r \in Operands}

SemaExprs == FlatExprs \cup Assignments

\* the statement positions an expression can stand in
StmtsWith(e) ==
    {ExprStmt(e), ReturnStmt(e), VarDeclStmt("v", NoTypeName, e),
     IfStmt(e, Block(<<>>), NullNode), WhileStmt(e, Block(<<ExprStmt(e)>>)),
     FunctionStmt("g", <<>>, VoidName, Block(<<ExprStmt(e)>>))}

SemaModules == {Append(SemaPreamble, st) : st \in UNION {StmtsWith(e) : e \in SemaExprs}}

SemaSpec == CompileInit(SemaModules) /\ [][CompileNext]_vars

RECURSIVE ExprTyped(_)
\* the type slot of e and of every expression below it is set
ExprTyped(e) ==
    /\ e.type # NullType
    /\ CASE e.node = "Binary"       -> ExprTyped(e.left) /\ ExprTyped(e.right)
         [] e.node = "Call"         -> \A i \in 1..Len(e.args) : ExprTyped(e.args[i])
         [] e.node = "MemberAccess" -> ExprTyped(e.object)
         [] e.node = "Index"        -> ExprTyped(e.object) /\ ExprTyped(e.index)
         [] e.node = "ArrayLiteral" -> \A i \in 1..Len(e.elements) : ExprTyped(e.elements[i])
         [] OTHER                   -> TRUE

RECURSIVE StmtTyped(_)
StmtTyped(st) ==
    CASE st.node = "ExprStmt" -> ExprTyped(st.expr)
      [] st.node = "Return"   -> st.value # NullNode => ExprTyped(st.value)
      [] st.node = "Block"    -> \A i \in 1..Len(st.statements) : StmtTyped(st.statements[i])
      [] st.node = "If"       -> /\ ExprTyped(st.condition)
                                 /\ StmtTyped(st.thenBranch)
                                 /\ st.elseBranch # NullNode => StmtTyped(st.elseBranch)
      [] st.node = "While"    -> ExprTyped(st.condition) /\ StmtTyped(st.body)
      [] st.node = "Function" -> st.body # NullNode => StmtTyped(st.body)
      [] st.node = "VarDecl"  -> st.initializer # NullNode => ExprTyped(st.initializer)
      [] OTHER                -> TRUE

\* C2: after check, every expression node reachable from the module's statements
\* has its type slot set, the operands of every assignment included.
C2_EveryExpressionTyped ==
    stage \in {"checked", "generated"} =>
        \A i \in 1..Len(output.ast) : StmtTyped(output.ast[i])


-----------------------------------------------------------------------------
(* Structs: a declaration, a variable of the struct type and a member access *)
(* read or assigned                                                          *)

FieldDecls == {Decl(n, t) : n \in {"x", "y"}, t \in {IntName, FloatName}}

FieldLists == SeqsUpTo(FieldDecls, MaxFields) \ {<<>>}

MemberUses ==
    UNION {{ExprStmt(MemberAccessExpr(VariableExpr("s"), m)),
            ExprStmt(BinaryExpr("=", MemberAccessExpr(VariableExpr("s"), m), One))} :
              m \in {"x", "y"}}

StructModules ==
    {<<StructDeclStmt("S", fields), VarDeclStmt("s", TypeName("S", 0), NullNode), use>> :
        fields \in FieldLists, use \in MemberUses}

StructSpec == CompileInit(StructModules) /\ [][CompileNext]_vars

\* the member access of a module of StructModules
AccessOf(module) ==
    IF module[3].expr.node = "MemberAccess" THEN module[3].expr ELSE module[3].expr.left

\* the struct GEPs of the implicit entry function
StructGEPs(cg) ==
    LET instrs == cg.blocks[1].instrs
    IN  {instrs[k] : k \in {j \in 1..Len(instrs) : instrs[j].op = "gep" /\ instrs[j].index >= 0}}

\* C3: the field index in the GEP of a member access is the declaration-order
\* position of the field Sema resolves the access to (getMemberType /
\* getMemberIndex), and the access has that field's type.
C3_FieldIndexAgrees ==
    stage = "generated" =>
        LET access == AccessOf(output.ast)
            struct == output.sema.structDefs["S"]
        IN  \A gep \in StructGEPs(output.cg) :
                /\ gep.index = GetMemberIndex(struct, access.member)
                /\ access.type = struct.fields[gep.index + 1].type

-----------------------------------------------------------------------------
(* Entry point: modules of functions named main, __init and f, defined or    *)
(* extern, between top-level statements                                      *)

TopLevels ==
    {FunctionStmt("main", <<>>, VoidName, Block(<<>>)),
     FunctionStmt("main", <<Decl("a", IntName)>>, IntName,
                  Block(<<ReturnStmt(VariableExpr("a"))>>)),
     FunctionStmt("main", <<Decl("a", FloatName)>>, VoidName, NullNode),
     FunctionStmt("f", <<>>, VoidName, Block(<<>>)),
     FunctionStmt("__init", <<>>, VoidName, Block(<<>>)),
     ExprStmt(One),
     ReturnStmt(One)}

EntryModules == SeqsUpTo(TopLevels, MaxDecls)

EntrySpec == CompileInit(EntryModules) /\ [][CompileNext]_vars

\* the positions of the top-level FunctionDecls named main
UserMains(module) ==
    {i \in 1..Len(module) : module[i].node = "Function" /\ module[i].name = "main"}

\* the functions that carry the name n itself in the generated module
Named(cg, n) ==
    {i \in 1..Len(cg.functions) : cg.functions[i].name = n /\ cg.functions[i].dup = 0}

\* C4: the function generate creates for the top-level statements is the only
\* function named __init (if the user declared a main) or main (otherwise), it is
\* () -> i64 and its first block is entry; a user main keeps the name main and
\* its parameter and return types, next to __init.
C4_EntryFunction ==
    stage = "generated" =>
        LET cg       == output.cg
            expected == IF UserMains(input) # {} THEN "__init" ELSE "main"
        IN  /\ Named(cg, expected) = {1}
            /\ cg.functions[1].paramTypes = <<>>
            /\ cg.functions[1].retType = I64
            /\ cg.functions[1].blocks # <<>>
            /\ cg.functions[1].blocks[1] = 1
            /\ cg.blocks[1].name = "entry"
            /\ UserMains(input) # {} =>
                  LET user == input[FirstOf(UserMains(input))]
                  IN  /\ Named(cg, "__init") # {}
                      /\ \E m \in Named(cg, "main") :
                            /\ m # 1
                            /\ cg.functions[m].paramTypes =
                                  [i \in 1..Len(user.params) |->
                                      GetType(CodeGenInitState, user.params[i].typeName)]
                            /\ cg.functions[m].retType =
                                  GetType(CodeGenInitState, user.returnType)

\* a top-level statement, then a user main with a parameter, then a user __init
C4_Witness ==
    /\ stage = "generated"
    /\ Len(input) = 3
    /\ input[1] = ExprStmt(One)
    /\ input[2].node = "Function" /\ input[2].name = "main" /\ input[2].params # <<>>
    /\ input[3].node = "Function" /\ input[3].name = "__init"
    /\ Named(output.cg, "__init") = {1}
    /\ \E i \in 1..Len(output.cg.functions) :
          output.cg.functions[i].name = "__init" /\ output.cg.functions[i].dup = 1

-----------------------------------------------------------------------------
(* Lexer properties *)

LastToken == tokens[Len(tokens)]

\* 1-based line of the character at 0-based offset p of src
LineAt(src, p) == 1 + Cardinality({i \in 1..p : src[i] = "\n"})

\* 1-based column of the character at 0-based offset p of src
ColumnAt(src, p) ==
    LET nl == {i \in 1..p : src[i] = "\n"}
        lastNl == IF nl = {} THEN 0 ELSE CHOOSE i \in nl : \A j \in nl : j <= i
    IN  p - lastNl + 1

\* C5: every returned token's line and column are the 1-based line and column of
\* the first character of its text in the source.
C5_TokenPositionIsTextStart ==
    \A i \in 1..Len(tokens) :
        tokens[i].textLen > 0 =>
            /\ tokens[i].line = LineAt(source, tokens[i].textPos)
            /\ tokens[i].column = ColumnAt(source, tokens[i].textPos)

\* the source with whitespace and #-to-end-of-line comments removed
RECURSIVE StripFrom(_, _, _)
StripFrom(src, i, inComment) ==
    IF i > Len(src) THEN <<>>
    ELSE IF inComment
         THEN IF src[i] = "\n" THEN StripFrom(src, i + 1, FALSE)
              ELSE StripFrom(src, i + 1, TRUE)
    ELSE IF src[i] = "#" THEN StripFrom(src, i + 1, TRUE)
    ELSE IF IsSpace(src[i]) THEN StripFrom(src, i + 1, FALSE)
    ELSE <<src[i]>> \o StripFrom(src, i + 1, FALSE)

RECURSIVE ConcatTexts(_, _)
ConcatTexts(src, toks) ==
    IF toks = <<>> THEN <<>>
    ELSE TextOf(src, Head(toks).textPos, Head(toks).textLen) \o ConcatTexts(src, Tail(toks))

\* C6: the texts of the tokens up to EndOfFile, concatenated in order, are the
\* source with whitespace and comments removed.
C6_ConcatIsStrippedSource ==
    (tokens # <<>> /\ LastToken.kind = "EndOfFile") =>
        ConcatTexts(source, tokens) = StripFrom(source, 1, FALSE)

\* C7: once nextToken has returned EndOfFile, the next call returns EndOfFile
\* again and leaves position, line and column as they were.
C7_EofSticky ==
    [][(tokens # <<>> /\ LastToken.kind = "EndOfFile") =>
          /\ tokens'[Len(tokens')].kind = "EndOfFile"
          /\ position' = position /\ line' = line /\ column' = column]_vars

C7_Witness ==
    /\ Len(source) = MaxSrcLen
    /\ Len(tokens) >= 3
    /\ EofCalls >= 2

SingleCharOperators ==
    {"+", "-", "*", "/", "=", "<", ">", ".", ",", ":", "(", ")", "[", "]"}

\* the kind the closed token set gives the operator that starts with c, next being
\* the character after c
OperatorKind(c, next) ==
    IF      c = "-" /\ next = ">" THEN "Arrow"
    ELSE IF c = "=" /\ next = "=" THEN "EqualEqual"
    ELSE IF c = "!" /\ next = "=" THEN "NotEqual"
    ELSE IF c = "+" THEN "Plus"
    ELSE IF c = "-" THEN "Minus"
    ELSE IF c = "*" THEN "Star"
    ELSE IF c = "/" THEN "Slash"
    ELSE IF c = "=" THEN "Equal"
    ELSE IF c = "<" THEN "LessThan"
    ELSE IF c = ">" THEN "GreaterThan"
    ELSE IF c = "." THEN "Dot"
    ELSE IF c = "," THEN "Comma"
    ELSE IF c = ":" THEN "Colon"
    ELSE IF c = "(" THEN "LParen"
    ELSE IF c = ")" THEN "RParen"
    ELSE IF c = "[" THEN "LBracket"
    ELSE "RBracket"

\* C8: a token that starts at an operator of the closed set has that operator's
\* kind (two-character kinds by one character of look-ahead), never Error.
C8_OperatorsClassified ==
    \A i \in 1..Len(tokens) :
        LET t    == tokens[i]
            c    == source[t.textPos + 1]
            next == IF t.textPos + 2 <= Len(source) THEN source[t.textPos + 2] ELSE NUL
        IN  (/\ t.kind \notin {"EndOfFile", "String"}
             /\ (c \in SingleCharOperators \/ (c = "!" /\ next = "=")))
            => t.kind = OperatorKind(c, next)


-----------------------------------------------------------------------------
(* Parser specification: parseExpression on operand/operator token streams *)

BinaryOperatorKinds ==
    {"Equal", "EqualEqual", "NotEqual", "LessThan", "GreaterThan",
     "Plus", "Minus", "Star", "Slash"}

\* the text slice the lexer gives an operator token
OperatorText(kind) ==
    CASE kind = "Equal"       -> "="
      [] kind = "EqualEqual"  -> "=="
      [] kind = "NotEqual"    -> "!="
      [] kind = "LessThan"    -> "<"
      [] kind = "GreaterThan" -> ">"
      [] kind = "Plus"        -> "+"
      [] kind = "Minus"       -> "-"
      [] kind = "Star"        -> "*"
      [] kind = "Slash"       -> "/"

OperandNames == <<"a", "b", "c", "d", "e", "f", "g", "h">>

\* the token stream of  a op1 b op2 c ...  followed by EndOfFile
RECURSIVE ExprStream(_)
ExprStream(ops) ==
    IF ops = <<>> THEN <<Tok("Identifier", OperandNames[1]), EofTok>>
    ELSE LET k    == Len(ops)
             init == ExprStream(SubSeq(ops, 1, k - 1))
         IN  SubSeq(init, 1, Len(init) - 1)
             \o <<Tok(ops[k], OperatorText(ops[k])),
                  Tok("Identifier", OperandNames[k + 1]), EofTok>>

ExprStreams == {ExprStream(ops) : ops \in SeqsUpTo(BinaryOperatorKinds, MaxOps)}

\* Parser::Parser primes currentToken with the first token of the stream
ParserInit ==
    /\ LexIdle
    /\ stage = "parser"
    /\ input \in ExprStreams
    /\ output = NoOutput

\* Parser::parseExpression on the whole stream
ParseExpressionCall ==
    /\ stage = "parser"
    /\ ~output.done
    /\ LET r == ParseExpression(input, 1)
       IN  output' = [done |-> TRUE, ok |-> r.ok, node |-> r.node, pos |-> r.pos]
    /\ UNCHANGED <<lexerVars, stage, input>>

ParserNext == ParseExpressionCall

ParserSpec == ParserInit /\ [][ParserNext]_vars

-----------------------------------------------------------------------------
(* Parser properties *)

\* the operator kinds of a stream, in order
StreamOps(toks) == [k \in 1..((Len(toks) - 2) \div 2) |-> toks[2 * k].kind]

\* C9: a chain e1 = e2 = e3 parses to Binary(=, e1, Binary(=, e2, e3)).
C9_AssignmentRightAssociative ==
    (output.done /\ StreamOps(input) = <<"Equal", "Equal">>) =>
        /\ output.ok
        /\ output.node =
              BinaryExpr("=", VariableExpr("a"),
                         BinaryExpr("=", VariableExpr("b"), VariableExpr("c")))

\* the precedence table of the language: level of an operator given by its text
LevelOf(op) ==
    CASE op \in {"*", "/"}   -> 5
      [] op \in {"+", "-"}   -> 4
      [] op \in {"<", ">"}   -> 3
      [] op \in {"==", "!="} -> 2
      [] op = "="            -> 1

RECURSIVE WellGrouped(_)
WellGrouped(n) ==
    n.node = "Binary" =>
        /\ n.right.node = "Binary" => LevelOf(n.right.op) > LevelOf(n.op)
        /\ n.left.node = "Binary" => LevelOf(n.left.op) >= LevelOf(n.op)
        /\ WellGrouped(n.left)
        /\ WellGrouped(n.right)

\* the operands and operators of a tree, left to right
RECURSIVE InOrder(_)
InOrder(n) ==
    IF n.node = "Binary" THEN InOrder(n.left) \o <<n.op>> \o InOrder(n.right)
    ELSE <<n.name>>

StreamTexts(toks) == [k \in 1..(Len(toks) - 1) |-> toks[k].text]

AssignmentFree(toks) == \A k \in 1..Len(toks) : toks[k].kind # "Equal"

\* C10: a parenthesis-free expression over == != < > + - * / parses, up to
\* EndOfFile, to the tree over the same operands and operators in the same order
\* in which a right child binds strictly tighter than its parent and a left child
\* at least as tight.
C10_PrecedenceAndLeftAssociativity ==
    (output.done /\ AssignmentFree(input)) =>
        /\ output.ok
        /\ Cur(input, output.pos).kind = "EndOfFile"
        /\ InOrder(output.node) = StreamTexts(input)
        /\ WellGrouped(output.node)

C10_Witness ==
    /\ output.done
    /\ StreamOps(input) = <<"Plus", "Star", "LessThan">>
    /\ output.node =
          BinaryExpr("<",
              BinaryExpr("+", VariableExpr("a"),
                         BinaryExpr("*", VariableExpr("b"), VariableExpr("c"))),
              VariableExpr("d"))

-----------------------------------------------------------------------------
(* Module parsing: Parser::parseModule on the token streams of small         *)
(* programs, whole and with an Error token inserted, a token replaced by an  *)
(* Error token, a token deleted or the stream cut short                      *)

\* the token of the closed token set spelled w; "?" stands for an unrecognized byte
TokenOfWord(w) ==
    CASE w = "def"    -> Tok("Def", w)
      [] w = "end"    -> Tok("End", w)
      [] w = "if"     -> Tok("If", w)
      [] w = "else"   -> Tok("Else", w)
      [] w = "while"  -> Tok("While", w)
      [] w = "return" -> Tok("Return", w)
      [] w = "var"    -> Tok("Var", w)
      [] w = "struct" -> Tok("Struct", w)
      [] w = "extern" -> Tok("Extern", w)
      [] w = "("      -> Tok("LParen", w)
      [] w = ")"      -> Tok("RParen", w)
      [] w = "["      -> Tok("LBracket", w)
      [] w = "]"      -> Tok("RBracket", w)
      [] w = ":"      -> Tok("Colon", w)
      [] w = ","      -> Tok("Comma", w)
      [] w = "."      -> Tok("Dot", w)
      [] w = "->"     -> Tok("Arrow", w)
      [] w = "="      -> Tok("Equal", w)
      [] w = "<"      -> Tok("LessThan", w)
      [] w = "+"      -> Tok("Plus", w)
      [] w = "-"      -> Tok("Minus", w)
      [] w = "1"      -> Tok("Integer", w)
      [] w = "2"      -> Tok("Integer", w)
      [] w = "?"      -> Tok("Error", w)
      [] OTHER        -> Tok("Identifier", w)

TokensOf(words) == [k \in 1..Len(words) |-> TokenOfWord(words[k])]

VarTyped == <<"var", "x", ":", "int">>

VarInitialized == <<"var", "x", "=", "1">>

VarTypedInitialized == <<"var", "x", ":", "int", "=", "1">>

Programs ==
    {VarTyped, VarInitialized, VarTypedInitialized,
     <<"var", "a", ":", "int", "[", "]">>,
     <<"def", "f", "(", "x", ":", "int", ",", "y", ":", "int", ")", "->", "int",
       "return", "x", "+", "y", "end">>,
     <<"def", "main", "(", ")", "print_int", "(", "1", "+", "2", ")", "end">>,
     <<"struct", "S", "x", ":", "int", "y", ":", "float", "end">>,
     <<"extern", "def", "g", "(", "a", ":", "int", ")", "->", "int">>,
     <<"if", "x", "<", "1", "return", "else", "x", "=", "2", "end">>,
     <<"while", "x", "var", "y", "=", "x", "-", "1", "end">>,
     <<"a", ".", "b", "[", "1", "]", "=", "[", "1", ",", "2", "]">>,
     <<"f", "(", "1", ",", "x", ")">>}

\* the streams one edit away from toks
EditsOf(toks) ==
    {SubSeq(toks, 1, k) \o <<TokenOfWord("?")>> \o SubSeq(toks, k + 1, Len(toks)) :
        k \in 0..Len(toks)}
    \cup {[toks EXCEPT ![k] = TokenOfWord("?")] : k \in 1..Len(toks)}
    \cup {SubSeq(toks, 1, k - 1) \o SubSeq(toks, k + 1, Len(toks)) : k \in 1..Len(toks)}
    \cup {SubSeq(toks, 1, k) : k \in 0..Len(toks)}

RECURSIVE Edited(_, _)
\* the streams at most n edits away from a stream of S
Edited(S, n) ==
    IF n = 0 THEN S ELSE LET fewer == Edited(S, n - 1)
                         IN  fewer \cup UNION {EditsOf(toks) : toks \in fewer}

\* every stream ends with the EndOfFile token
ModuleStreams == {toks \o <<EofTok>> : toks \in Edited({TokensOf(p) : p \in Programs}, MaxEdits)}

\* Parser::Parser primes currentToken with the first token of the stream
ModuleParserInit ==
    /\ LexIdle
    /\ stage = "module"
    /\ input \in ModuleStreams
    /\ output = NoOutput

\* Parser::parseModule on the whole stream
ParseModuleCall ==
    /\ stage = "module"
    /\ ~output.done
    /\ LET r == ParseModule(input, 1, <<>>)
       IN  output' = [done |-> TRUE, ok |-> r.ok, node |-> r.node, pos |-> r.pos]
    /\ UNCHANGED <<lexerVars, stage, input>>

ModuleParserSpec == ModuleParserInit /\ [][ParseModuleCall]_vars

RECURSIVE VarDeclsOf(_)
RECURSIVE VarDeclsOfAll(_)
\* the VarDecl nodes of a statement, in order
VarDeclsOf(s) ==
    CASE s.node = "VarDecl"  -> <<s>>
      [] s.node = "Block"    -> VarDeclsOfAll(s.statements)
      [] s.node = "If"       -> VarDeclsOf(s.thenBranch) \o VarDeclsOf(s.elseBranch)
      [] s.node = "While"    -> VarDeclsOf(s.body)
      [] s.node = "Function" -> VarDeclsOf(s.body)
      [] OTHER               -> <<>>

VarDeclsOfAll(stmts) ==
    IF stmts = <<>> THEN <<>> ELSE VarDeclsOf(Head(stmts)) \o VarDeclsOfAll(Tail(stmts))

\* `var IDENT` at k followed by neither ':' nor '='
BareVarAt(toks, k) ==
    /\ toks[k].kind = "Var"
    /\ Cur(toks, k + 1).kind = "Identifier"
    /\ Cur(toks, k + 2).kind \notin {"Colon", "Equal"}

VarTokens(toks) == {k \in 1..Len(toks) : toks[k].kind = "Var"}

\* C11: a stream with `var IDENT` followed by neither `: TYPENAME` nor `= expr`
\* ends in the fatal exit; when a module is returned every `var` of the stream
\* has become a VarDecl node that has a type name or an initializer, and the three
\* forms `var x : int`, `var x = 1`, `var x : int = 1` parse to their VarDecl
C11_VarNeedsTypeOrInitializer ==
    (stage = "module" /\ output.done) =>
        /\ (\E k \in 1..Len(input) : BareVarAt(input, k)) => ~output.ok
        /\ output.ok =>
              /\ Len(VarDeclsOfAll(output.node)) = Cardinality(VarTokens(input))
              /\ \A k \in 1..Len(VarDeclsOfAll(output.node)) :
                    \/ VarDeclsOfAll(output.node)[k].typeName # NoTypeName
                    \/ VarDeclsOfAll(output.node)[k].initializer # NullNode
        /\ input = TokensOf(VarTyped) \o <<EofTok>> =>
              output.ok /\ output.node = <<VarDeclStmt("x", IntName, NullNode)>>
        /\ input = TokensOf(VarInitialized) \o <<EofTok>> =>
              output.ok /\ output.node = <<VarDeclStmt("x", NoTypeName, One)>>
        /\ input = TokensOf(VarTypedInitialized) \o <<EofTok>> =>
              output.ok /\ output.node = <<VarDeclStmt("x", IntName, One)>>

\* the parser died on the token after `var IDENT`
C11_Witness ==
    /\ stage = "module" /\ output.done /\ ~output.ok
    /\ output.pos > 2
    /\ BareVarAt(input, output.pos - 2)

ErrorTokens(toks) == {k \in 1..Len(toks) : toks[k].kind = "Error"}

FirstError(toks) == CHOOSE k \in ErrorTokens(toks) : \A j \in ErrorTokens(toks) : k <= j

\* C12: on a stream that contains an Error token parseModule returns no module:
\* it ends in the fatal exit with currentToken at or before the first Error
\* token, so no Error token is ever consumed
C12_ErrorTokenIsFatal ==
    (stage = "module" /\ output.done /\ ErrorTokens(input) # {}) =>
        ~output.ok /\ output.pos <= FirstError(input)

\* the parser consumed tokens and died with the Error token as look-ahead
C12_Witness ==
    /\ stage = "module" /\ output.done /\ ~output.ok
    /\ ErrorTokens(input) # {}
    /\ FirstError(input) > 1
    /\ output.pos = FirstError(input)

-----------------------------------------------------------------------------
(* Lexer::number.                                                            *)

\* the position just after the digits that start at position p of the source
EndOfDigits(src, p) == DigitLoop(src, LexState(p, 1, 1, p)).position

\* C13: a token of Lexer::number is a Float exactly when its leading digits
\* are followed by a '.' and by at least one further digit; digits followed
\* by a '.' and something other than a digit are not a Float.
C13_FloatNeedsFractionDigit ==
    \A k \in 1..Len(tokens) :
        tokens[k].kind \in {"Integer", "Float"} =>
            LET dot == EndOfDigits(source, tokens[k].textPos)
            IN  tokens[k].kind = "Float" <=>
                    /\ dot + 2 <= Len(source)
                    /\ source[dot + 1] = "."
                    /\ IsDigit(source[dot + 2])

-----------------------------------------------------------------------------
(* Function scope: parameters and locals that shadow module-level names, the *)
(* locals declared at every nesting depth of if and while                    *)

Locals ==
    {VarDeclStmt("x", FloatName, NullNode), VarDeclStmt("v", NoTypeName, One),
     VarDeclStmt("f", IntName, NullNode)}

ScopeStmts ==
    Locals
    \cup {IfStmt(One, Block(<<l>>), NullNode) : l \in Locals}
    \cup {IfStmt(One, Block(<<>>), Block(<<l>>)) : l \in Locals}
    \cup {WhileStmt(One, Block(<<l>>)) : l \in Locals}
    \cup {WhileStmt(One, Block(<<IfStmt(One, Block(<<l>>), NullNode)>>)) : l \in Locals}

ScopeParams ==
    {<<>>, <<Decl("x", FloatName)>>, <<Decl("a", IntName), Decl("x", TypeName("int", 1))>>}

ScopePreambles == {<<>>, <<VarDeclStmt("x", IntName, One)>>}

ScopeModules ==
    {Append(pre, FunctionStmt("f", params, IntName, Block(body))) :
        pre \in ScopePreambles, params \in ScopeParams,
        body \in SeqsUpTo(ScopeStmts, MaxBodyLen)}

ScopeSpec == CompileInit(ScopeModules) /\ [][CompileNext]_vars

\* the Sema state in which statement i of the module is visited
SemaBefore(module, i) == SemaStmts(SemaInitState, SubSeq(module, 1, i - 1), <<>>).state

\* the symbol table with the function registered and nothing else changed
Registered(sema, s) ==
    Put(sema.symbolTable, s.name,
        FunctionType(ResolveType(sema, s.returnType),
                     [k \in 1..Len(s.params) |-> ResolveType(sema, s.params[k].typeName)]))

\* C14: after the visit of a function with a body the symbol table is the table
\* of before the visit with the function registered: no parameter and no local
\* of the body remains, and every shadowed binding has its previous type.
C14_FunctionScopeRestored ==
    stage \in {"checked", "generated"} =>
        \A i \in 1..Len(input) :
            (input[i].node = "Function" /\ input[i].body # NullNode) =>
                /\ SemaStmt(SemaBefore(input, i), input[i]).state.symbolTable
                       = Registered(SemaBefore(input, i), input[i])
                /\ i = Len(input) =>
                       output.sema.symbolTable = Registered(SemaBefore(input, i), input[i])

\* a parameter and a nested local shadowed the module-level x, a local shadowed f
C14_Witness ==
    /\ stage = "checked"
    /\ Len(input) = 2
    /\ input[2].params = <<Decl("x", FloatName)>>
    /\ input[2].body.statements =
           <<VarDeclStmt("f", IntName, NullNode),
             WhileStmt(One, Block(<<IfStmt(One, Block(<<VarDeclStmt("v", NoTypeName, One)>>), NullNode)>>))>>
    /\ output.sema.symbolTable["x"] = IntType
    /\ output.sema.symbolTable["f"].kind = "Function"
    /\ ~Has(output.sema.symbolTable, "v")

-----------------------------------------------------------------------------
(* Calls: a function of one int parameter called with too few, too many and  *)
(* wrongly typed arguments, followed by one more statement                   *)

CallArgs == SeqsUpTo(Atoms, Len(SemaPreamble[2].params) + 1)

CallStmts ==
    {ExprStmt(CallExpr("f", args)) : args \in CallArgs}
    \cup {VarDeclStmt("v", NoTypeName, CallExpr("f", args)) : args \in CallArgs}

CallModules ==
    {SemaPreamble \o <<c, ExprStmt(BinaryExpr("+", a, One))>> : c \in CallStmts, a \in Operands}

CallSpec == CompileInit(CallModules) /\ [][CompileNext]_vars

\* the call of a statement of CallStmts
CallOf(st) == IF st.node = "ExprStmt" THEN st.expr ELSE st.initializer

\* the argument count or the type of an argument differs from the parameters
Mismatch(call, ft) ==
    \/ Len(call.args) # Len(ft.paramTypes)
    \/ \E i \in 1..Len(call.args) : call.args[i].type # ft.paramTypes[i]

\* C15: the visit of a call whose arguments do not match the parameters of the
\* function emits a diagnostic, gives the call the function's return type and
\* goes on to type the statement that follows.
C15_CallMismatchDiagnosed ==
    stage \in {"checked", "generated"} =>
        LET k    == Len(SemaPreamble) + 1
            sema == SemaBefore(input, k)
            call == CallOf(output.ast[k])
            ft   == sema.symbolTable[call.callee]
        IN  Mismatch(call, ft) =>
                /\ DiagnosticsOf(sema, CallOf(input[k])) # <<>>
                /\ call.type = ft.returnType
                /\ StmtTyped(output.ast[k + 1])

-----------------------------------------------------------------------------
(* Fabricated returns: a function of every return type whose body ends with  *)
(* or without a terminator, at top level or after an if or a while           *)

ReturnTypes ==
    {VoidName, IntName, FloatName, TypeName("bool", 0), TypeName("string", 0),
     TypeName("int", 1), TypeName("T", 0)}

ReturnBodyStmts ==
    {ReturnStmt(One), ReturnStmt(NullNode), ExprStmt(One),
     IfStmt(One, Block(<<ReturnStmt(One)>>), NullNode),
     IfStmt(One, Block(<<ReturnStmt(One)>>), Block(<<ReturnStmt(One)>>)),
     IfStmt(VariableExpr("u"), Block(<<ReturnStmt(One)>>), NullNode),
     WhileStmt(One, Block(<<ReturnStmt(One)>>))}

ReturnModules ==
    {<<FunctionStmt("f", params, rt, Block(body))>> :
        params \in {<<>>, <<Decl("a", IntName)>>}, rt \in ReturnTypes,
        body \in SeqsUpTo(ReturnBodyStmts, MaxBodyLen)}

ReturnSpec == CompileInit(ReturnModules) /\ [][CompileNext]_vars

\* CodeGen's state when generate reaches the first statement of the module
EntryState(stmts) ==
    SetInsertPoint(
        CreateBlock(CreateFunction(CodeGenInitState, EntryName(stmts), <<>>, I64), "entry", 1),
        1)

\* CodeGen's state when the body of the function s has just been lowered
BodyLowered(cg, s) ==
    LET func     == Len(cg.functions) + 1
        declared == CreateFunction(cg, s.name,
                                   [i \in 1..Len(s.params) |-> GetType(cg, s.params[i].typeName)],
                                   GetType(cg, s.returnType))
        entered  == [SetInsertPoint(CreateBlock(declared, "entry", func),
                                    Len(declared.blocks) + 1)
                        EXCEPT !.namedValues = EmptyMap]
    IN  CGBlock(CGParams(entered, func, s.params, 1), s.body)

\* the operands of the return that the claim describes for a return type
FabricatedOperands(cg, returnType) ==
    IF returnType = VoidName THEN <<>>
    ELSE IF GetType(cg, returnType).t = "int"
         THEN <<ConstantInt(GetType(cg, returnType), 0)>>
         ELSE <<UndefValue(GetType(cg, returnType))>>

\* C16: when the body of a function has been lowered and the current block has
\* no terminator, exactly one return is appended to it: of nothing for a void
\* function, of 0 for an integer return type and of undef otherwise; a
\* terminated block, and every other block of the function, is left as it is.
C16_FabricatedReturn ==
    stage = "generated" =>
        LET s    == input[1]
            body == BodyLowered(EntryState(input), s)
            cur  == body.insertBlock
        IN  /\ Len(output.cg.blocks) = Len(body.blocks)
            /\ \A b \in 2..Len(body.blocks) :
                   output.cg.blocks[b].instrs =
                       IF b = cur /\ ~HasTerminator(body, cur)
                       THEN Append(body.blocks[b].instrs,
                                   Instr("ret", body.nextId, IRVoid,
                                         FabricatedOperands(body, s.returnType), <<>>, ""))
                       ELSE body.blocks[b].instrs

\* a function returning float whose body ends in the merge block of an if
C16_Witness ==
    /\ stage = "generated"
    /\ input[1].returnType = FloatName
    /\ input[1].body.statements = <<IfStmt(One, Block(<<ReturnStmt(One)>>), NullNode)>>
    /\ LET last   == output.cg.functions[2].blocks[Len(output.cg.functions[2].blocks)]
           instrs == output.cg.blocks[last].instrs
       IN  /\ Len(instrs) = 1
           /\ instrs[1].op = "ret"
           /\ instrs[1].args = <<UndefValue(Double)>>

-----------------------------------------------------------------------------
(* A second check by the same TypeChecker: check fills the type slots from   *)
(* the symbolTable and structDefs members, which it never resets             *)

RecheckStmts ==
    {VarDeclStmt("x", IntName, One),
     VarDeclStmt("x", NoTypeName, VariableExpr("x")),
     FunctionStmt("f", <<Decl("a", IntName)>>, IntName, NullNode),
     FunctionStmt("g", <<Decl("x", FloatName)>>, VoidName,
                  Block(<<ExprStmt(VariableExpr("x"))>>)),
     StructDeclStmt("S", <<Decl("x", IntName)>>),
     VarDeclStmt("s", TypeName("S", 0), NullNode),
     ExprStmt(One),
     ExprStmt(VariableExpr("x")),
     ExprStmt(CallExpr("f", <<One>>)),
     ExprStmt(MemberAccessExpr(VariableExpr("s"), "x"))}

RecheckModules == SeqsUpTo(RecheckStmts, MaxDecls)

\* checker.check(statements) once more, on the AST with its type slots cleared
\* (the parsed module) and with the members as the first check left them
Recheck ==
    /\ stage = "checked"
    /\ LET v == SemaStmts(output.sema, input, <<>>)
       IN  output' = [done |-> TRUE, ast |-> v.stmt, sema |-> v.state,
                      cg |-> output.cg, first |-> output.ast]
    /\ stage' = "rechecked"
    /\ UNCHANGED <<lexerVars, input>>

RecheckNext == TypeCheck \/ Recheck

RecheckSpec == CompileInit(RecheckModules) /\ [][RecheckNext]_vars

-----------------------------------------------------------------------------
(* executeSource: the source is lexed and parsed, checked, lowered, and the  *)
(* function named main is run by the JIT with print_int mapped to the host   *)

RECURSIVE LexAll(_, _, _)
\* the tokens that the parser's calls of advance() draw from the lexer, up to
\* and including the first EndOfFile, and the lexer state after them
LexAll(src, st, acc) ==
    IF NextTokenOf(src, st).tok.kind = "EndOfFile"
    THEN [st |-> NextTokenOf(src, st).st, tokens |-> Append(acc, NextTokenOf(src, st).tok)]
    ELSE LexAll(src, NextTokenOf(src, st).st, Append(acc, NextTokenOf(src, st).tok))

RECURSIVE StringOf(_)
\* std::string(token.text): the characters of the view as one string
StringOf(chars) == IF chars = <<>> THEN "" ELSE Head(chars) \o StringOf(Tail(chars))

\* the token as the parser reads it: its kind and the string of its text
ParserToken(src, tok) == Tok(tok.kind, StringOf(TextOf(src, tok.textPos, tok.textLen)))

\* printf("Output: %ld\n", val): the line written to stdout
PrintInt(val) == IF val < 0 THEN "Output: -" \o Decimal(-val) ELSE "Output: " \o Decimal(val)

RECURSIVE RunBlock(_, _, _, _)
\* engine->runFunction on a function whose entry block holds calls of print_int
\* on integer constants and a return: the lines printed, and whether the return
\* was reached.  A block without instructions left, or any other instruction,
\* ends the run without a return.
RunBlock(cg, instrs, k, printed) ==
    IF k > Len(instrs) THEN [printed |-> printed, returned |-> FALSE]
    ELSE IF instrs[k].op = "ret" THEN [printed |-> printed, returned |-> TRUE]
    ELSE IF /\ instrs[k].op = "call"
            /\ instrs[k].callee = "print_int"
            /\ Len(instrs[k].args) = 1
            /\ "value" \in DOMAIN instrs[k].args[1]
         THEN RunBlock(cg, instrs, k + 1, Append(printed, PrintInt(instrs[k].args[1].value)))
         ELSE [printed |-> printed, returned |-> FALSE]

\* the words of the sources
DefWord == <<"d", "e", "f">>

EndWord == <<"e", "n", "d">>

ExternWord == <<"e", "x", "t", "e", "r", "n">>

MainWord == <<"m", "a", "i", "n">>

PrintIntWord == <<"p", "r", "i", "n", "t", "_", "i", "n", "t">>

ExternPrintInt ==
    ExternWord \o <<" ">> \o DefWord \o <<" ">> \o PrintIntWord
    \o <<"(", "v", ":", " ", "i", "n", "t", ")", "\n">>

\* def main() print_int(1 + 2) end
PrintThree ==
    DefWord \o <<" ">> \o MainWord \o <<"(", ")", " ">> \o PrintIntWord
    \o <<"(", "1", " ", "+", " ", "2", ")", " ">> \o EndWord

PrintArgs ==
    {<<"1", " ", "+", " ", "2">>, <<"3">>, <<"1", "-", "2">>, <<"2", "*", "2">>,
     <<"9", "/", "2">>, <<"1", "+", "2", "*", "2">>, <<"x">>, <<>>}

ExecSources ==
    {PrintThree}
    \cup {decl \o DefWord \o <<" ">> \o name \o <<"(", ")", " ">> \o callee
               \o <<"(">> \o arg \o <<")", " ">> \o EndWord :
            decl \in {<<>>, ExternPrintInt}, name \in {MainWord, <<"f">>},
            callee \in {PrintIntWord, <<"p">>}, arg \in PrintArgs}

\* executeSource(code): Lexer lexer(code)
ExecuteInit ==
    /\ source \in ExecSources
    /\ position = 0 /\ line = 1 /\ column = 1 /\ startPosition = 0
    /\ tokens = <<>>
    /\ stage = "source"
    /\ input = <<>>
    /\ output = NoOutput

\* Parser parser(lexer); parser.parseModule(): the statements, or exit(1)
ParseSource ==
    /\ stage = "source"
    /\ LET lexed == LexAll(source, LexState(position, line, column, startPosition), <<>>)
       IN  /\ tokens' = lexed.tokens
           /\ position' = lexed.st.position
           /\ line' = lexed.st.line
           /\ column' = lexed.st.column
           /\ startPosition' = lexed.st.startPosition
    /\ LET r == ParseModule([k \in 1..Len(tokens') |-> ParserToken(source, tokens'[k])],
                            1, <<>>)
       IN  IF r.ok THEN stage' = "parsed" /\ input' = r.node
           ELSE stage' = "exited" /\ input' = input
    /\ UNCHANGED <<source, output>>

\* the JIT part of executeSource: main is looked up by name and run
Execute ==
    /\ stage = "generated"
    /\ LET irMainFunc == GetFunction(output.cg, "main")
           entry      == output.cg.functions[irMainFunc].blocks[1]
           run        == RunBlock(output.cg, output.cg.blocks[entry].instrs, 1, <<>>)
       IN  output' = [done |-> TRUE, ast |-> output.ast, sema |-> output.sema,
                      cg |-> output.cg, stdout |-> run.printed, returned |-> run.returned]
    /\ stage' = "executed"
    /\ UNCHANGED <<lexerVars, input>>

ExecuteNext == ParseSource \/ TypeCheck \/ GenerateCode \/ Execute

ExecuteSpec == ExecuteInit /\ [][ExecuteNext]_vars

\* the call instructions of print_int in the blocks of the function named main
PrintCalls(cg) ==
    LET main == cg.functions[GetFunction(cg, "main")]
    IN  UNION {{i \in {cg.blocks[main.blocks[b]].instrs[k] :
                          k \in 1..Len(cg.blocks[main.blocks[b]].instrs)} :
                   i.op = "call" /\ i.callee = "print_int"} :
               b \in 1..Len(main.blocks)}

\* C18: the module def main() print_int(1 + 2) end compiles to a main that
\* holds exactly one call of print_int, on the value of 1 + 2, and running main
\* prints Output: 3.
C18_PrintThree ==
    (stage = "executed" /\ source = PrintThree) =>
        /\ Cardinality(PrintCalls(output.cg)) = 1
        /\ \A i \in PrintCalls(output.cg) : i.args = <<ConstantInt(I64, 3)>>
        /\ output.stdout = <<"Output: 3">>

-----------------------------------------------------------------------------
(* Array literals: no element, and elements of equal and of different types  *)

Elements ==
    {One, LiteralExpr("1.5", TRUE, FALSE, FALSE), VariableExpr("x"), VariableExpr("u"),
     VariableExpr("s"), ArrayLiteralExpr(<<>>), ArrayLiteralExpr(<<One>>)}

ArrayLiterals == {ArrayLiteralExpr(elements) : elements \in SeqsUpTo(Elements, MaxElements)}

ArrayModules ==
    {Append(SemaPreamble, st) :
        st \in {ExprStmt(a) : a \in ArrayLiterals}
               \cup {VarDeclStmt("v", NoTypeName, a) : a \in ArrayLiterals}}

ArraySpec == CompileInit(ArrayModules) /\ [][CompileNext]_vars

\* the array literal of the statement that follows the preamble
LiteralOf(module) ==
    IF module[Len(SemaPreamble) + 1].node = "ExprStmt"
    THEN module[Len(SemaPreamble) + 1].expr
    ELSE module[Len(SemaPreamble) + 1].initializer

\* C19: an empty array literal has the type array of int; a literal with
\* elements has the type array of the type of its first element, whatever the
\* types of the others, and each element is typed.
C19_ArrayLiteralType ==
    stage \in {"checked", "generated"} =>
        LET lit  == LiteralOf(output.ast)
            sema == SemaBefore(input, Len(SemaPreamble) + 1)
        IN  /\ Len(lit.elements) = Len(LiteralOf(input).elements)
            /\ lit.type = IF lit.elements = <<>> THEN ArrayType(IntType)
                          ELSE ArrayType(lit.elements[1].type)
            /\ \A i \in 1..Len(lit.elements) :
                   /\ ExprTyped(lit.elements[i])
                   /\ lit.elements[i] = SemaExpr(sema, LiteralOf(input).elements[i])

\* an int first, a float and an array after it: the literal is an array of int
C19_Witness ==
    /\ stage = "checked"
    /\ Len(LiteralOf(output.ast).elements) = 3
    /\ LiteralOf(output.ast).elements[1].type = IntType
    /\ LiteralOf(output.ast).elements[2].type = FloatType
    /\ LiteralOf(output.ast).elements[3].type = ArrayType(IntType)
    /\ LiteralOf(output.ast).type = ArrayType(IntType)

-----------------------------------------------------------------------------
(* if statements: with and without else, at top level and in a function, the *)
(* branches ending in a plain statement, a return, a nested if or a while    *)

IfConditions == {One, VariableExpr("a"), BinaryExpr("<", VariableExpr("a"), One)}

IfBranches ==
    {<<>>, <<ExprStmt(One)>>, <<ReturnStmt(One)>>,
     <<IfStmt(One, Block(<<ReturnStmt(One)>>), NullNode)>>,
     <<IfStmt(One, Block(<<ReturnStmt(One)>>), Block(<<ReturnStmt(One)>>))>>,
     <<WhileStmt(One, Block(<<>>))>>}

IfStmts ==
    {IfStmt(c, Block(t), NullNode) : c \in IfConditions, t \in IfBranches}
    \cup {IfStmt(c, Block(t), Block(e)) : c \in IfConditions, t \in IfBranches, e \in IfBranches}

IfModules ==
    {<<s>> : s \in IfStmts}
    \cup {<<FunctionStmt("f", <<Decl("a", IntName)>>, VoidName, Block(<<s>>))>> : s \in IfStmts}

IfSpec == CompileInit(IfModules) /\ [][CompileNext]_vars

\* the if statement of a module of IfModules
IfOf(module) ==
    IF module[1].node = "If" THEN module[1] ELSE module[1].body.statements[1]

\* CodeGen's state when the if statement of the module is reached
BeforeIf(module) ==
    IF module[1].node = "If" THEN EntryState(module)
    ELSE BodyLowered(EntryState(module), [module[1] EXCEPT !.body = Block(<<>>)])

\* the state after the condition was lowered and widened, the three blocks were
\* created and the conditional branch was emitted
IfBranched(module) ==
    LET s       == IfOf(module)
        cond    == CGExpr(BeforeIf(module), s.condition)
        condV   == WidenCondition(cond, cond.lastValue)
        func    == CurrentFunction(condV.cg)
        thenBB  == Len(condV.cg.blocks) + 1
        created == CreateBlock(CreateBlock(CreateBlock(condV.cg, "then", func), "else", 0),
                               "ifcont", 0)
    IN  Emit(created, "condbr", IRVoid, <<condV.value>>,
             <<thenBB, IF s.elseBranch # NullNode THEN thenBB + 1 ELSE thenBB + 2>>, "")

\* the blocks inserted into the function, as a set
BlocksOf(cg, func) == {cg.functions[func].blocks[k] : k \in 1..Len(cg.functions[func].blocks)}

\* the instructions of block b with a branch to target appended unless the block
\* is terminated
ClosedBy(cg, b, target) ==
    IF HasTerminator(cg, b) THEN cg.blocks[b].instrs
    ELSE Append(cg.blocks[b].instrs, Instr("br", cg.nextId, IRVoid, <<>>, <<target>>, ""))

\* C20: for an if whose condition lowers to a value, the conditional branch
\* goes to then and, without an else, to the merge block, where only then and
\* merge are inserted, and with an else to else; each branch ends with a branch
\* to merge unless its last block is terminated; insertion goes on at merge.
C20_IfLowering ==
    (stage = "generated" /\ CGExpr(BeforeIf(input), IfOf(input).condition).lastValue # NullValue) =>
        LET s        == IfOf(input)
            hasElse  == s.elseBranch # NullNode
            at       == BeforeIf(input)
            branched == IfBranched(input)
            func     == CurrentFunction(at)
            thenBB   == Len(at.blocks) + 1
            elseBB   == thenBB + 1
            mergeBB  == thenBB + 2
            thenEnd  == CGBlock(SetInsertPoint(branched, thenBB), s.thenBranch)
            elseEnd  == CGBlock(SetInsertPoint(
                                    InsertBlock(BranchUnlessTerminated(thenEnd, mergeBB),
                                                func, elseBB), elseBB),
                                s.elseBranch)
            final    == output.cg
        IN  /\ final.blocks[at.insertBlock].instrs = branched.blocks[at.insertBlock].instrs
            /\ branched.blocks[at.insertBlock].instrs[Len(branched.blocks[at.insertBlock].instrs)].targets
                   = <<thenBB, IF hasElse THEN elseBB ELSE mergeBB>>
            /\ {thenBB, mergeBB} \subseteq BlocksOf(final, func)
            /\ elseBB \in BlocksOf(final, func) <=> hasElse
            /\ final.blocks[thenEnd.insertBlock].instrs
                   = ClosedBy(thenEnd, thenEnd.insertBlock, mergeBB)
            /\ hasElse => final.blocks[elseEnd.insertBlock].instrs
                              = ClosedBy(elseEnd, elseEnd.insertBlock, mergeBB)
            /\ Len(final.blocks[mergeBB].instrs) = 1
            /\ final.blocks[mergeBB].instrs[1].op = "ret"
            /\ final.functions[func].blocks[Len(final.functions[func].blocks)] = mergeBB

\* an if without else in a function: the then branch returns, the else block
\* is not in the function and the fabricated return is in the merge block
C20_Witness ==
    /\ stage = "generated"
    /\ input[1].node = "Function"
    /\ IfOf(input) = IfStmt(VariableExpr("a"), Block(<<ReturnStmt(One)>>), NullNode)
    /\ output.cg.functions[2].blocks = <<2, 3, 5>>
    /\ output.cg.blocks[2].instrs[Len(output.cg.blocks[2].instrs)].targets = <<3, 5>>
    /\ Len(output.cg.blocks[3].instrs) = 1
    /\ output.cg.blocks[5].instrs[1].op = "ret"

-----------------------------------------------------------------------------
(* while statements: at top level and in a function, the condition a         *)
(* constant, a loaded parameter, a comparison or an undeclared variable, the *)
(* body ending in a plain statement, a return, a nested if or a while        *)

WhileConditions == IfConditions \cup {VariableExpr("u")}

WhileStmts == {WhileStmt(c, Block(b)) : c \in WhileConditions, b \in IfBranches}

WhileModules ==
    {<<s>> : s \in WhileStmts}
    \cup {<<FunctionStmt("f", <<Decl("a", IntName)>>, rt, Block(<<s>>))>> :
            s \in WhileStmts, rt \in {VoidName, IntName, FloatName}}

WhileSpec == CompileInit(WhileModules) /\ [][CompileNext]_vars

\* the statement under study: the only statement of the module, or of the body
\* of its only function
StmtOf(module) ==
    IF module[1].node = "Function" THEN module[1].body.statements[1] ELSE module[1]

\* CodeGen's state when that statement is reached
BeforeStmt(module) ==
    IF module[1].node = "Function"
    THEN BodyLowered(EntryState(module), [module[1] EXCEPT !.body = Block(<<>>)])
    ELSE EntryState(module)

\* the state after the branch to cond, the condition lowered and widened in
\* cond, and the conditional branch
WhileBranched(module) ==
    LET at      == BeforeStmt(module)
        condBB  == Len(at.blocks) + 1
        created == CreateBlock(CreateBlock(CreateBlock(at, "whilecond", CurrentFunction(at)),
                                           "whilebody", 0), "afterwhile", 0)
        jumped  == Emit(created, "br", IRVoid, <<>>, <<condBB>>, "")
        cond    == CGExpr(SetInsertPoint(jumped, condBB), StmtOf(module).condition)
        condV   == WidenCondition(cond, cond.lastValue)
    IN  Emit(condV.cg, "condbr", IRVoid, <<condV.value>>, <<condBB + 1, condBB + 2>>, "")

\* the blocks that hold a branch to block b
EnteredFrom(cg, b) ==
    {p \in 1..Len(cg.blocks) :
        \E k \in 1..Len(cg.blocks[p].instrs) :
            \E t \in 1..Len(cg.blocks[p].instrs[k].targets) :
                cg.blocks[p].instrs[k].targets[t] = b}

\* C21: a while is lowered to a branch from the current block to cond, in cond
\* the condition and a conditional branch to body or after, in body the body
\* and a branch back to cond unless its last block is terminated; cond, body
\* and after are inserted, insertion goes on at after, and after is entered
\* only from cond.
C21_WhileLowering ==
    stage = "generated" =>
        LET at       == BeforeStmt(input)
            func     == CurrentFunction(at)
            condBB   == Len(at.blocks) + 1
            loopBB   == condBB + 1
            afterBB  == condBB + 2
            branched == WhileBranched(input)
            bodyEnd  == CGBlock(SetInsertPoint(InsertBlock(branched, func, loopBB), loopBB),
                                StmtOf(input).body)
            final    == output.cg
        IN  /\ final.blocks[at.insertBlock].instrs
                   = Append(at.blocks[at.insertBlock].instrs,
                            Instr("br", at.nextId, IRVoid, <<>>, <<condBB>>, ""))
            /\ final.blocks[condBB].instrs = branched.blocks[condBB].instrs
            /\ final.blocks[bodyEnd.insertBlock].instrs
                   = ClosedBy(bodyEnd, bodyEnd.insertBlock, condBB)
            /\ {condBB, loopBB, afterBB} \subseteq BlocksOf(final, func)
            /\ final.functions[func].blocks[Len(final.functions[func].blocks)] = afterBB
            /\ Len(final.blocks[afterBB].instrs) = 1
            /\ final.blocks[afterBB].instrs[1].op = "ret"
            /\ EnteredFrom(final, afterBB) = {condBB}

-----------------------------------------------------------------------------
(* Top-level function declarations between top-level statements.             *)

FunctionTopLevels ==
    {VarDeclStmt("x", IntName, One),
     ExprStmt(BinaryExpr("+", VariableExpr("x"), One)),
     WhileStmt(One, Block(<<>>)),
     ReturnStmt(VariableExpr("x")),
     FunctionStmt("g", <<Decl("a", IntName)>>, IntName, NullNode),
     FunctionStmt("f", <<Decl("x", FloatName)>>, IntName,
                  Block(<<VarDeclStmt("y", IntName, One), WhileStmt(One, Block(<<>>))>>))}

FunctionModules == SeqsUpTo(FunctionTopLevels, MaxDecls)

FunctionSpec == CompileInit(FunctionModules) /\ [][CompileNext]_vars

\* CodeGen's state when generate has lowered the first i statements
LoweredUpTo(stmts, i) == CGStmts(EntryState(stmts), SubSeq(stmts, 1, i))

\* the instructions the builder appended at its insertion point, in order
\* (createEntryBlockAlloca puts the allocas in front of them)
Appended(instrs) == SelectSeq(instrs, LAMBDA k : k.op # "alloca")

IsPrefixOf(a, b) == Len(a) <= Len(b) /\ SubSeq(b, 1, Len(a)) = a

\* C22: the lowering of a top-level function declaration leaves the insertion
\* block, namedValues and the blocks of the entry function as they were, so
\* every top-level statement is lowered into the entry function, after the
\* instructions of the statements before it.
C22_FunctionRestoresState ==
    stage = "generated" =>
        /\ \A i \in {k \in 1..Len(output.ast) : output.ast[k].node = "Function"} :
               LET before == LoweredUpTo(output.ast, i - 1)
                   after  == LoweredUpTo(output.ast, i)
               IN  /\ after.insertBlock = before.insertBlock
                   /\ after.namedValues = before.namedValues
                   /\ after.functions[1] = before.functions[1]
                   /\ \A b \in 1..Len(before.blocks) : after.blocks[b] = before.blocks[b]
        /\ \A i \in 0..Len(output.ast) :
               LET at == LoweredUpTo(output.ast, i)
               IN  /\ CurrentFunction(at) = 1
                   /\ \A b \in 1..Len(at.blocks) :
                          IsPrefixOf(Appended(at.blocks[b].instrs),
                                     Appended(output.cg.blocks[b].instrs))

\* a defined function with a parameter x and a local y stands between a
\* top-level `var x` and a top-level use of x, after a top-level while
C22_Witness ==
    /\ stage = "generated"
    /\ Len(input) = 3
    /\ input[1] = VarDeclStmt("x", IntName, One)
    /\ input[2].node = "Function"
    /\ input[2].body # NullNode
    /\ input[3] = ExprStmt(BinaryExpr("+", VariableExpr("x"), One))
    /\ Has(output.cg.namedValues, "x")
    /\ ~Has(output.cg.namedValues, "y")
    /\ Len(output.cg.functions) = 2

-----------------------------------------------------------------------------
(* Assignments: every kind of target, with and without an address, and       *)
(* right sides that lower to a value or to null                              *)

AssignTargets ==
    {VariableExpr("x"), VariableExpr("u"), One, CallExpr("f", <<One>>),
     MemberAccessExpr(VariableExpr("s"), "x"),
     MemberAccessExpr(VariableExpr("s"), "u"),
     IndexExpr(VariableExpr("arr"), One),
     IndexExpr(VariableExpr("arr"), CallExpr("f", <<VariableExpr("x")>>)),
     IndexExpr(VariableExpr("arr"), VariableExpr("u")),
     IndexExpr(VariableExpr("arr"), BinaryExpr("=", VariableExpr("x"), One)),
     IndexExpr(VariableExpr("x"), One)}

AssignValues ==
    {One, VariableExpr("x"), VariableExpr("u"), CallExpr("f", <<One>>),
     CallExpr("f", <<VariableExpr("u")>>), CallExpr("g", <<>>),
     BinaryExpr("=", VariableExpr("x"), One),
     BinaryExpr("+", VariableExpr("x"), One)}

AssignModules ==
    {Append(SemaPreamble, ExprStmt(BinaryExpr("=", l, r))) : l \in AssignTargets, r \in AssignValues}

AssignSpec == CompileInit(AssignModules) /\ [][CompileNext]_vars

\* the assignment that follows the preamble, as Sema typed it
AssignmentOf(module) == module[Len(SemaPreamble) + 1].expr

\* the address of the left side, computed where the assignment is reached
AddressOf(module) ==
    GetLValueAddress(LoweredUpTo(module, Len(SemaPreamble)), AssignmentOf(module).left)

\* the right side lowered after the address
ValueOf(module) == CGExpr(AddressOf(module).cg, AssignmentOf(module).right)

\* the instructions of the entry block without the final `ret 0` of generate
EntryBody(cg) == SubSeq(cg.blocks[1].instrs, 1, Len(cg.blocks[1].instrs) - 1)

\* no address: the right side is not lowered, nothing is stored, the value is null
NoAddress(module, final) ==
    /\ EntryBody(final) = AddressOf(module).cg.blocks[1].instrs
    /\ final.nextId = AddressOf(module).cg.nextId + 1
    /\ final.lastValue = NullValue

\* the address, then the right side, then one store of its value to the address
Stored(module, final) ==
    /\ EntryBody(final)
           = Append(ValueOf(module).blocks[1].instrs,
                    Instr("store", ValueOf(module).nextId, IRVoid,
                          <<ValueOf(module).lastValue, AddressOf(module).value>>, <<>>, ""))
    /\ final.lastValue = ValueOf(module).lastValue

\* C23 as stated: the address of the left side is computed before the right side
\* is lowered, one store of the right side's value to it follows, and that
\* value is the value of the assignment; without an address the right side is
\* not lowered, nothing is stored and the value is null.
C23_AssignmentStores ==
    stage = "generated" =>
        IF AddressOf(output.ast).value = NullValue THEN NoAddress(output.ast, output.cg)
        ELSE Stored(output.ast, output.cg)

\* C23 amended: as above where the right side lowers to a value; where it
\* lowers to null nothing is stored and the value of the assignment is null.
C23_AssignmentStoresValue ==
    stage = "generated" =>
        IF AddressOf(output.ast).value = NullValue THEN NoAddress(output.ast, output.cg)
        ELSE IF ValueOf(output.ast).lastValue # NullValue THEN Stored(output.ast, output.cg)
        ELSE /\ EntryBody(output.cg) = ValueOf(output.ast).blocks[1].instrs
             /\ output.cg.lastValue = NullValue

\* arr[f(x)] = f(1): the call of the index comes before the call of the right
\* side, and the store comes last
C23_Witness ==
    /\ stage = "generated"
    /\ AssignmentOf(input).left = IndexExpr(VariableExpr("arr"), CallExpr("f", <<VariableExpr("x")>>))
    /\ AssignmentOf(input).right = CallExpr("f", <<One>>)
    /\ EntryBody(output.cg)[Len(EntryBody(output.cg))].op = "store"
    /\ Cardinality({k \in 1..Len(EntryBody(output.cg)) : EntryBody(output.cg)[k].op = "call"}) = 2

-----------------------------------------------------------------------------
(* Expressions around a sub-expression that CodeGen cannot lower             *)

\* an undeclared variable, a function missing from the module, a call with
\* too few and one with too many arguments
FailingExprs ==
    {VariableExpr("u"), CallExpr("g", <<>>), CallExpr("f", <<>>), CallExpr("f", <<One, One>>)}

\* the expressions that hold e as an operand
Enclosing(e) ==
    {BinaryExpr("+", e, One), BinaryExpr("<", VariableExpr("x"), e),
     BinaryExpr("=", VariableExpr("x"), e),
     CallExpr("f", <<e>>),
     MemberAccessExpr(e, "x"),
     IndexExpr(e, One), IndexExpr(VariableExpr("arr"), e),
     ArrayLiteralExpr(<<e>>), ArrayLiteralExpr(<<One, e>>)}

FailingModules ==
    {Append(SemaPreamble, ExprStmt(e)) :
        e \in FailingExprs
              \cup UNION {Enclosing(f) : f \in FailingExprs}
              \cup UNION {UNION {Enclosing(g) : g \in Enclosing(f)} : f \in FailingExprs}}

FailingSpec == CompileInit(FailingModules) /\ [][CompileNext]_vars

\* the instructions of the module that have the null value as an operand
NullOperands(cg) ==
    {<<b, k>> \in UNION {{<<c, j>> : j \in 1..Len(cg.blocks[c].instrs)} : c \in 1..Len(cg.blocks)} :
        \E a \in 1..Len(cg.blocks[b].instrs[k].args) :
            cg.blocks[b].instrs[k].args[a] = NullValue}

\* C24: an expression statement whose expression holds a sub-expression that
\* fails to lower yields null, and no instruction has the null value as an
\* operand.
C24_FailurePropagates ==
    stage = "generated" =>
        /\ output.cg.lastValue = NullValue
        /\ NullOperands(output.cg) = {}

-----------------------------------------------------------------------------
(* Index expressions, nested, read and assigned to, with calls inside        *)

IndexPreamble == Append(SemaPreamble, VarDeclStmt("m", TypeName("int", 2), NullNode))

Indices == {One, VariableExpr("x"), CallExpr("f", <<One>>)}

IndexExprs ==
    {IndexExpr(VariableExpr("arr"), i) : i \in Indices}
    \cup {IndexExpr(VariableExpr("arr"), IndexExpr(VariableExpr("arr"), i)) : i \in Indices}
    \cup {IndexExpr(IndexExpr(VariableExpr("m"), i), j) : i \in Indices, j \in Indices}

IndexModules ==
    {Append(IndexPreamble, ExprStmt(e)) : e \in IndexExprs}
    \cup {Append(IndexPreamble, ExprStmt(BinaryExpr("=", e, v))) : e \in IndexExprs, v \in Indices}

IndexSpec == CompileInit(IndexModules) /\ [][CompileNext]_vars

RECURSIVE CallsIn(_)
\* the number of Call expressions in e
CallsIn(e) ==
    CASE e.node = "Binary"       -> CallsIn(e.left) + CallsIn(e.right)
      [] e.node = "Call"         -> 1 + (IF e.args = <<>> THEN 0 ELSE CallsIn(e.args[1]))
      [] e.node = "MemberAccess" -> CallsIn(e.object)
      [] e.node = "Index"        -> CallsIn(e.object) + CallsIn(e.index)
      [] OTHER                   -> 0

\* the call instructions of the entry block
CallInstrs(cg) == {k \in 1..Len(cg.blocks[1].instrs) : cg.blocks[1].instrs[k].op = "call"}

\* C25: the lowering of a statement that reads or assigns an Index expression
\* holds one call instruction for each Call in it: the object and the index of
\* every Index are lowered once, whatever the nesting.
C25_IndexLoweredOnce ==
    stage = "generated" =>
        Cardinality(CallInstrs(output.cg)) = CallsIn(input[Len(IndexPreamble) + 1].expr)

-----------------------------------------------------------------------------
(* Variable visibility: a use of a name at top level or in a function body,  *)
(* after top-level declarations                                              *)

VisibilityDecls ==
    {VarDeclStmt("x", IntName, One),
     VarDeclStmt("z", FloatName, NullNode),
     FunctionStmt("g", <<Decl("a", IntName)>>, IntName,
                  Block(<<VarDeclStmt("y", IntName, One)>>))}

VisibilityNames == {"x", "z", "a", "y", "g", "u"}

\* the use as the last top-level statement, or as the last statement of the
\* body of a function f(a), alone or after a local y
VisibilityUses ==
    {<<ExprStmt(VariableExpr(n))>> : n \in VisibilityNames}
    \cup {<<FunctionStmt("f", <<Decl("a", IntName)>>, IntName,
                         Block(b \o <<ExprStmt(VariableExpr(n))>>))>> :
              n \in VisibilityNames, b \in {<<>>, <<VarDeclStmt("y", IntName, One)>>}}

VisibilityModules ==
    {pre \o use : pre \in SeqsUpTo(VisibilityDecls, MaxBodyLen), use \in VisibilityUses}

VisibilitySpec == CompileInit(VisibilityModules) /\ [][CompileNext]_vars

\* the use of the module: its last statement, or the last statement of the
\* body of its last statement
UseOf(module) ==
    LET last == module[Len(module)]
    IN  IF last.node = "Function"
        THEN last.body.statements[Len(last.body.statements)].expr
        ELSE last.expr

\* C26: Sema gives the use the type of a variable exactly when CodeGen finds
\* a stack slot for the name and loads it.
C26_VisibilityAgrees ==
    stage = "generated" =>
        ((UseOf(output.ast).type.kind \notin {"Void", "Function"})
            <=> (output.cg.lastValue # NullValue))

-----------------------------------------------------------------------------
(* Sequences of struct declarations, with redeclared names                   *)

\* field lists without a repeated field name
RedeclaredFields ==
    {<<Decl("x", IntName)>>, <<Decl("y", IntName)>>, <<Decl("x", FloatName)>>,
     <<Decl("x", IntName), Decl("y", IntName)>>,
     <<Decl("y", IntName), Decl("x", IntName)>>}

RedeclarationModules ==
    SeqsUpTo({StructDeclStmt(n, fields) : n \in {"S", "T"}, fields \in RedeclaredFields},
             MaxDecls) \ {<<>>}

RedeclarationSpec == CompileInit(RedeclarationModules) /\ [][CompileNext]_vars

\* CodeGen's struct of that name has the fields of st, in st's order
SameFieldList(cg, st) ==
    /\ Has(cg.structTypes, st.name)
    /\ Len(cg.structTypes[st.name]) = Len(st.fields)
    /\ DOMAIN cg.structFieldIndices[st.name] = {st.fields[i].name : i \in 1..Len(st.fields)}
    /\ \A i \in 1..Len(st.fields) :
           cg.structFieldIndices[st.name][st.fields[i].name] = i - 1

\* C27: after the declarations of the module, every struct of Sema's registry
\* has the same field names in the same order in CodeGen's structTypes and
\* structFieldIndices, and CodeGen knows no other struct.
C27_StructRegistriesAgree ==
    stage = "generated" =>
        /\ DOMAIN output.cg.structTypes = DOMAIN output.sema.structDefs
        /\ \A n \in DOMAIN output.sema.structDefs :
               SameFieldList(output.cg, output.sema.structDefs[n])

-----------------------------------------------------------------------------
(* Array types: declared by name and given to array literals                 *)

ArrayTypeNames ==
    {TypeName(b, d) : b \in {"int", "float", "bool", "string", "void", "S", "U"}, d \in 0..2}

ArrayElements == {One, VariableExpr("v"), VariableExpr("u")}

ArrayTypeModules ==
    {<<StructDeclStmt("S", <<Decl("x", IntName)>>), VarDeclStmt("v", n, NullNode),
       ExprStmt(ArrayLiteralExpr(es))>> :
        n \in ArrayTypeNames, es \in SeqsUpTo(ArrayElements, MaxElements)}

ArrayTypeSpec == CompileInit(ArrayTypeModules) /\ [][CompileNext]_vars

RECURSIVE HasVoidArray(_)
\* t is an array of void, or an array of such arrays
HasVoidArray(t) ==
    /\ t.kind = "Array"
    /\ (t.elementType.kind = "Void" \/ HasVoidArray(t.elementType))

\* C28: neither the type that resolveType gives to the declared type name of v
\* nor the type Sema gives to the array literal is an array of void.
C28_NoArrayOfVoid ==
    stage \in {"checked", "generated"} =>
        /\ ~HasVoidArray(output.sema.symbolTable["v"])
        /\ ~HasVoidArray(output.ast[3].expr.type)

-----------------------------------------------------------------------------
(* The type Sema gives an expression and the type of the value CodeGen       *)
(* lowers it to                                                              *)

TypedPreamble ==
    SemaPreamble \o <<VarDeclStmt("m", TypeName("int", 2), NullNode),
                      VarDeclStmt("t", TypeName("string", 1), NullNode)>>

TypedExprs ==
    {One, LiteralExpr("1.0", TRUE, FALSE, FALSE), LiteralExpr("true", FALSE, TRUE, FALSE),
     VariableExpr("x"), VariableExpr("s"), VariableExpr("arr"), VariableExpr("m"),
     CallExpr("f", <<One>>), MemberAccessExpr(VariableExpr("s"), "x"),
     ArrayLiteralExpr(<<One>>),
     BinaryExpr("=", VariableExpr("x"), One),
     BinaryExpr("=", IndexExpr(VariableExpr("arr"), One), VariableExpr("x"))}
    \cup {IndexExpr(VariableExpr(a), One) : a \in {"arr", "m", "t"}}
    \cup {BinaryExpr(op, a, b) : op \in {"+", "-", "*", "/", "<", ">", "==", "!="},
                                 a \in Operands, b \in Operands}

TypedModules == {Append(TypedPreamble, ExprStmt(e)) : e \in TypedExprs}

TypedSpec == CompileInit(TypedModules) /\ [][CompileNext]_vars

\* the IR type of a semantic type: int is i64, float is double, bool is i1,
\* string and T[] are pointers, struct N is its aggregate, void is void
IRTypeOf(type) ==
    CASE type.kind = "Int"    -> I64
      [] type.kind = "Float"  -> Double
      [] type.kind = "Bool"   -> I1
      [] type.kind = "String" -> Ptr
      [] type.kind = "Array"  -> Ptr
      [] type.kind = "Struct" -> IRStruct(type.name)
      [] OTHER                -> IRVoid

\* C29: the value that CodeGen lowers the expression to, if it is not null,
\* has the IR type of the semantic type that Sema gave the expression.
C29_TypesAgree ==
    stage = "generated" /\ output.cg.lastValue # NullValue =>
        output.cg.lastValue.ty = IRTypeOf(output.ast[Len(TypedPreamble) + 1].expr.type)

-----------------------------------------------------------------------------
(* Progress of the parser: what each routine consumes of a stream that ends  *)
(* in EndOfFile                                                              *)

\* one iteration of the loop of parseModule at position i
TopLevelAt(toks, i) ==
    CASE Cur(toks, i).kind = "Def"    -> ParseFunction(toks, i)
      [] Cur(toks, i).kind = "Struct" -> ParseStruct(toks, i)
      [] Cur(toks, i).kind = "Extern" -> ParseExtern(toks, i)
      [] OTHER                        -> ParseStatement(toks, i)

\* the routine started at i stops at or before the EndOfFile token, and after
\* at least one token if it returns
Consumes(toks, i, r) == i <= r.pos /\ r.pos <= Len(toks) /\ (r.ok => i < r.pos)

\* a loop started at i stops at or before the EndOfFile token
StopsBeforeEnd(toks, i, r) == i <= r.pos /\ r.pos <= Len(toks)

\* C30: parseModule ends on the EndOfFile token or in the fatal exit before
\* it; from every position before EndOfFile an iteration of the module loop
\* and of the block loop (a statement), of the argument, element and
\* parameter loops (an expression, a type name) and of the postfix and Pratt
\* loops (a primary) consumes at least one token or exits, and no loop goes
\* past EndOfFile.
C30_ParserProgress ==
    /\ output.done => /\ output.pos <= Len(input)
                      /\ (output.ok => output.pos = Len(input))
    /\ \A i \in 1..(Len(input) - 1) :
           /\ Consumes(input, i, TopLevelAt(input, i))
           /\ Consumes(input, i, ParseStatement(input, i))
           /\ Consumes(input, i, ParseExpression(input, i))
           /\ Consumes(input, i, ParsePrimary(input, i))
           /\ Consumes(input, i, ParseTypeName(input, i))
           /\ StopsBeforeEnd(input, i, ParseBlock(input, i, <<>>))
           /\ StopsBeforeEnd(input, i, ParseFields(input, i, <<>>))
           /\ StopsBeforeEnd(input, i, ParsePostfix(input, i, One))
           /\ StopsBeforeEnd(input, i, ParseBinary(input, i, 0, One))
    /\ ~TopLevelAt(input, Len(input)).ok

\* a stream cut inside a call, so that the argument loop meets EndOfFile:
\* the parser exits on the EndOfFile token
C30_Witness ==
    /\ output.done
    /\ ~output.ok
    /\ output.pos = Len(input)
    /\ Len(input) > 3
    /\ input[Len(input) - 1].kind = "Comma"

=============================================================================
